---------------------------- MODULE Spec2Model ----------------------------
(***************************************************************************)
(* A model of the JSON-schema derivation engine of ktong/coagent (package  *)
(* internal/schema) in its two revisions:                                  *)
(*                                                                         *)
(*   - the $defs-producing revision  (src/unnamed/part_001, lines 1-312),  *)
(*     whose operators carry the suffix D where they differ;               *)
(*   - the maps-and-bounds revision  (src/unnamed/part_001, lines 314-711).*)
(*                                                                         *)
(* and of its HTTP client (src/internal/httpclient/stream.go) with the two  *)
(* functions that delete an assistant through it, of Client.Run           *)
(* (src/openai/internal/assistant.go) and of Executor.Run                  *)
(* (src/openai/executor.go).  Each program has its own specification:      *)
(* Spec, SpecStream, SpecDelete, SpecRun and SpecExec.                     *)
(*                                                                         *)
(* Go strings the code takes apart (struct tag values) are sequences of    *)
(* one-character strings; Go strings the code only compares or appends to  *)
(* (type names, field names, property names, error texts) are strings.     *)
(***************************************************************************)
EXTENDS Integers, Sequences, FiniteSets, TLC

VARIABLES
    rev,      \* which revision of the package is linked: "defs" or "mb"
    bits,     \* math/bits.UintSize of the build: 32 or 64
    root,     \* the type argument T of For[T], named by its String()
    probe,    \* type and struct tag of the field V of the record struct{V}
    pc,       \* "init", "called" (after one For call), "twice" (after two); "off"
    first,    \* what the first call of For returned
    second,   \* what the second, independent call of For returned
    resp,     \* the server's reply to the request of the HTTP client
    unread,   \* the bytes of the response body that Stream has not read
    event,    \* the event the handler of Stream was last called with
    delivered, \* the events the handler was called with, in order
    hpc,      \* the HTTP program: "off", "idle", "handling", "done"
    herr,     \* the error the call of the HTTP program returned
    asstID,   \* the ID of the assistant.Assistant to delete
    sent,     \* the requests sent: their paths, or path and body
    stream,   \* eventHandler.stream: the buffered channel of Client.Run
    incoming, \* the events of the stream being read that are still to come
    answer,   \* eventHandler.message: the text of the completed message
    gpc,      \* where each goroutine that calls Executor.Run is
    used,     \* the AssistantID of the run each goroutine started
    tools,    \* whether Schema() of the Assistant's function tools fails
    idLen     \* Executor.Run: the length word of asst.ID, whose data is asstID

schemaVars == <<rev, bits, root, probe, pc, first, second>>

vars == <<rev, bits, root, probe, pc, first, second,
          resp, unread, event, delivered, hpc, herr, asstID, sent,
          stream, incoming, answer, gpc, used, tools, idLen>>

(***************************************************************************)
(* Strings: package strings and strconv on sequences of characters.        *)
(***************************************************************************)

\* string(cs): the Go string holding the characters cs.
RECURSIVE Str(_)
Str(cs) == IF cs = <<>> THEN "" ELSE Head(cs) \o Str(Tail(cs))

EmptyMap == [x \in {} |-> x]

Digits == <<"0", "1", "2", "3", "4", "5", "6", "7", "8", "9">>

IsDigit(c) == \E i \in 1..10 : Digits[i] = c

DigitVal(c) == (CHOOSE i \in 1..10 : Digits[i] = c) - 1

(***************************************************************************)
(* Characters.  A character that can be written as a string of length one  *)
(* is that string; any other rune is the string of its escape, \u and four *)
(* lower-case hexadecimal digits (\U and eight beyond U+FFFF): "\\u000b"   *)
(* is the vertical tab and "\\u00a0" the no-break space.                   *)
(***************************************************************************)
LowerOf ==
    "A" :> "a" @@ "B" :> "b" @@ "C" :> "c" @@ "D" :> "d" @@ "E" :> "e"
    @@ "F" :> "f" @@ "G" :> "g" @@ "H" :> "h" @@ "I" :> "i" @@ "J" :> "j"
    @@ "K" :> "k" @@ "L" :> "l" @@ "M" :> "m" @@ "N" :> "n" @@ "O" :> "o"
    @@ "P" :> "p" @@ "Q" :> "q" @@ "R" :> "r" @@ "S" :> "s" @@ "T" :> "t"
    @@ "U" :> "u" @@ "V" :> "v" @@ "W" :> "w" @@ "X" :> "x" @@ "Y" :> "y"
    @@ "Z" :> "z"

Lower(c) == IF c \in DOMAIN LowerOf THEN LowerOf[c] ELSE c

LowerSeq(cs) == [i \in 1..Len(cs) |-> Lower(cs[i])]

HexDigits == <<"0", "1", "2", "3", "4", "5", "6", "7", "8", "9", "a", "b", "c", "d", "e", "f">>

IsHexDigit(c) == \E i \in 1..16 : HexDigits[i] = Lower(c)

HexDigitVal(c) == (CHOOSE i \in 1..16 : HexDigits[i] = Lower(c)) - 1

\* The printable ASCII characters in byte order, without the backquote.
Ascii ==
    <<" ", "!", "\"", "#", "$", "%", "&", "'", "(", ")", "*", "+", ",", "-",
      ".", "/", "0", "1", "2", "3", "4", "5", "6", "7", "8", "9", ":", ";",
      "<", "=", ">", "?", "@", "A", "B", "C", "D", "E", "F", "G", "H", "I",
      "J", "K", "L", "M", "N", "O", "P", "Q", "R", "S", "T", "U", "V", "W",
      "X", "Y", "Z", "[", "\\", "]", "^", "_", "a", "b", "c", "d", "e",
      "f", "g", "h", "i", "j", "k", "l", "m", "n", "o", "p", "q", "r", "s",
      "t", "u", "v", "w", "x", "y", "z", "{", "|", "}", "~">>

Hex4(n) ==
    HexDigits[((n \div 4096) % 16) + 1] \o HexDigits[((n \div 256) % 16) + 1]
       \o HexDigits[((n \div 16) % 16) + 1] \o HexDigits[(n % 16) + 1]

\* The character of a code point.
Rune(n) ==
    IF n = 9 THEN "\t"
    ELSE IF n = 10 THEN "\n"
    ELSE IF n = 12 THEN "\f"
    ELSE IF n = 13 THEN "\r"
    ELSE IF n >= 32 /\ n <= 95 THEN Ascii[n - 31]
    ELSE IF n >= 97 /\ n <= 126 THEN Ascii[n - 32]
    ELSE IF n < 65536 THEN "\\u" \o Hex4(n)
    ELSE "\\U" \o Hex4(n \div 65536) \o Hex4(n % 65536)

\* The code point of a character, up to U+10FFFF; UTF-8 orders strings by it.
Ord(c) ==
    IF \E n \in 0..127 : Rune(n) = c
    THEN CHOOSE n \in 0..127 : Rune(n) = c
    ELSE CHOOSE n \in 128..1114111 : Rune(n) = c

\* unicode.IsSpace: the white space strings.TrimSpace and bytes.TrimSpace
\* cut off: Unicode's White_Space property.
IsSpace(c) ==
    \/ c \in {" ", "\t", "\n", "\r", "\f"}
    \/ c \in {Rune(n) : n \in {11, 133, 160, 5760, 8232, 8233, 8239, 8287,
                               12288}}
    \/ c \in {Rune(n) : n \in 8192..8202}

\* The white space of JSON: space, tab, line feed and carriage return.
IsJSONSpace(c) == c \in {" ", "\t", "\n", "\r"}

\* The characters JSON does not allow in a string as they stand.
ControlChars == {Rune(n) : n \in 0..31}

\* Whether cs has sub as a prefix from position i on.
HasPrefixAt(cs, sub, i) ==
    /\ i + Len(sub) - 1 <= Len(cs)
    /\ \A j \in 1..Len(sub) : cs[i + j - 1] = sub[j]

\* strings.Index(cs, sub) + 1, or 0 when sub does not occur.
Index(cs, sub) ==
    LET hits == {i \in 1..(Len(cs) + 1) : HasPrefixAt(cs, sub, i)}
    IN  IF hits = {} THEN 0 ELSE CHOOSE i \in hits : \A j \in hits : i <= j

\* strings.Contains
Contains(cs, sub) == Index(cs, sub) # 0

\* strings.Cut, given i = strings.Index(cs, sep) + 1.
CutAt(cs, sep, i) ==
    IF i = 0
    THEN [before |-> cs, after |-> <<>>, found |-> FALSE]
    ELSE [before |-> SubSeq(cs, 1, i - 1),
          after  |-> SubSeq(cs, i + Len(sep), Len(cs)),
          found  |-> TRUE]

Cut(cs, sep) == CutAt(cs, sep, Index(cs, sep))

\* strings.Split(cs, sep) for a non-empty separator.
RECURSIVE Split(_, _)
RECURSIVE SplitAt(_, _, _)
SplitAt(cs, sep, i) ==
    IF i = 0 THEN <<cs>>
    ELSE <<SubSeq(cs, 1, i - 1)>> \o Split(SubSeq(cs, i + Len(sep), Len(cs)), sep)

Split(cs, sep) == SplitAt(cs, sep, Index(cs, sep))

\* strings.TrimSpace
RECURSIVE TrimLeft(_)
TrimLeft(cs) ==
    IF cs # <<>> /\ IsSpace(Head(cs)) THEN TrimLeft(Tail(cs)) ELSE cs

RECURSIVE TrimRight(_)
TrimRight(cs) ==
    IF cs # <<>> /\ IsSpace(cs[Len(cs)])
    THEN TrimRight(SubSeq(cs, 1, Len(cs) - 1))
    ELSE cs

TrimSpace(cs) == TrimRight(TrimLeft(cs))

\* The decimal digits of a natural number.
RECURSIVE NatDigits(_)
NatDigits(n) ==
    IF n < 10 THEN <<Digits[n + 1]>>
    ELSE NatDigits(n \div 10) \o <<Digits[(n % 10) + 1]>>

\* strconv.Itoa
Itoa(i) == IF i < 0 THEN "-" \o Str(NatDigits(0 - i)) ELSE Str(NatDigits(i))

\* The number a non-empty run of digits denotes.
RECURSIVE DigitsVal(_)
DigitsVal(ds) ==
    IF ds = <<>> THEN 0
    ELSE 10 * DigitsVal(SubSeq(ds, 1, Len(ds) - 1)) + DigitVal(ds[Len(ds)])

\* The length of the run of digits of cs that starts at position i.
RECURSIVE DigitRun(_, _)
DigitRun(cs, i) ==
    IF i <= Len(cs) /\ IsDigit(cs[i]) THEN 1 + DigitRun(cs, i + 1) ELSE 0

RECURSIVE Pow10(_)
Pow10(n) == IF n = 0 THEN 1 ELSE 10 * Pow10(n - 1)

RECURSIVE Zeros(_)
Zeros(n) == IF n <= 0 THEN <<>> ELSE <<"0">> \o Zeros(n - 1)

(***************************************************************************)
(* float64 values are kept as decimals m * 10^e, normalised so that m is   *)
(* not a multiple of 10: the shortest decimal that reads back as the       *)
(* float64.  Zero is m = 0, e = 0, and the negative zero, which no decimal *)
(* tells from it, is m = 0, e = 1.  Every literal of the model has at most *)
(* nine significant digits; a literal whose last digit stands at 1e-323 or *)
(* above is the shortest decimal of the float64 nearest to it, and the two *)
(* agree on being integral and on their order with 2^31 and 2^63.  A       *)
(* literal with digits below 1e-323 is rounded to a multiple of the least  *)
(* float64, 2^-1074 (Denormal).                                            *)
(***************************************************************************)
RECURSIVE Norm(_, _)
Norm(m, e) ==
    IF m = 0 THEN [m |-> 0, e |-> 0]
    ELSE IF m % 10 = 0 THEN Norm(m \div 10, e + 1)
    ELSE [m |-> m, e |-> e]

NegZero == [m |-> 0, e |-> 1]

\* The zero of the given sign.
Zero(neg) == IF neg THEN NegZero ELSE Norm(0, 0)

\* The decimal mant * 10^e with the sign neg.
Signed(neg, mant, e) ==
    IF mant = 0 THEN Zero(neg) ELSE Norm(IF neg THEN 0 - mant ELSE mant, e)

Abs(n) == IF n < 0 THEN 0 - n ELSE n

\* The leading k digits of 2^63 = 9223372036854775808 and of 2^31 = 2147483648.
Pow63Lead == <<9, 92, 922, 9223, 92233, 922337, 9223372, 92233720, 922337203>>
Pow31Lead == <<2, 21, 214, 2147, 21474, 214748, 2147483, 21474836, 214748364>>

\* Whether the integral f lies in the range of Go's int, which is int32 or
\* int64 by the build (2^w-1 has 10 or 19 digits).  The least int, -2^(w-1),
\* has more than nine significant digits and is no value of the model.
FitsInt(f, w) ==
    LET d    == Len(NatDigits(Abs(f.m)))
        n    == d + f.e
        top  == IF w = 32 THEN 10 ELSE 19
        lead == IF w = 32 THEN Pow31Lead ELSE Pow63Lead
    IN  \/ f.m = 0
        \/ n < top
        \/ n = top /\ Abs(f.m) <= lead[d]

\* f == float64(int(f)), part_001:281 and :680.  int(f) truncates; when f is
\* out of int's range the conversion yields a value that depends on the build
\* (the least int on amd64, the nearest bound on arm64), and converting that
\* back never gives f again for any f of the model.
RoundTripsInt(f, w) == f.e >= 0 /\ FitsInt(f, w)

\* The leading k digits of the largest float64, 1.7976931348623157e308, and of
\* half the smallest, 2.4703282292062327e-324.
MaxFloatLead ==
    <<1, 17, 179, 1797, 17976, 179769, 1797693, 17976931, 179769313>>
MinFloatLead ==
    <<2, 24, 247, 2470, 24703, 247032, 2470328, 24703282, 247032822>>

(***************************************************************************)
(* Natural numbers of any size, as sequences of numbers below 10^8 with    *)
(* the least significant first, for the rounding of a decimal to a         *)
(* multiple of 2^-1074.                                                    *)
(***************************************************************************)
RECURSIVE BigTrim(_)
BigTrim(a) ==
    IF a # <<>> /\ a[Len(a)] = 0 THEN BigTrim(SubSeq(a, 1, Len(a) - 1)) ELSE a

RECURSIVE BigAdd(_, _, _)
BigAdd(a, b, carry) ==
    IF a = <<>> /\ b = <<>> THEN (IF carry = 0 THEN <<>> ELSE <<carry>>)
    ELSE IF a = <<>> THEN BigAdd(<<0>>, b, carry)
    ELSE IF b = <<>> THEN BigAdd(a, <<0>>, carry)
    ELSE <<(Head(a) + Head(b) + carry) % Pow10(8)>>
         \o BigAdd(Tail(a), Tail(b), (Head(a) + Head(b) + carry) \div Pow10(8))

\* a * d + carry for d from 0 to 10
RECURSIVE BigMulDigit(_, _, _)
BigMulDigit(a, d, carry) ==
    IF a = <<>> THEN (IF carry = 0 THEN <<>> ELSE <<carry>>)
    ELSE <<(Head(a) * d + carry) % Pow10(8)>>
         \o BigMulDigit(Tail(a), d, (Head(a) * d + carry) \div Pow10(8))

\* a * n for a natural number n
RECURSIVE BigMul(_, _)
BigMul(a, n) ==
    IF n < 10 THEN BigMulDigit(a, n, 0)
    ELSE BigAdd(BigMulDigit(BigMul(a, n \div 10), 10, 0),
                BigMulDigit(a, n % 10, 0), 0)

\* x < y for x and y of the same length, decided from position i down
RECURSIVE BigLessFrom(_, _, _)
BigLessFrom(x, y, i) ==
    IF i = 0 THEN FALSE
    ELSE IF x[i] # y[i] THEN x[i] < y[i]
    ELSE BigLessFrom(x, y, i - 1)

BigLessTrimmed(x, y) ==
    IF Len(x) # Len(y) THEN Len(x) < Len(y) ELSE BigLessFrom(x, y, Len(x))

BigLess(a, b) == BigLessTrimmed(BigTrim(a), BigTrim(b))

\* 5^324 and 2^750: the least float64, 2^-1074, is 5^324 / 2^750 times
\* 1e-324.
Five324 ==
    <<56640625, 41285705, 18478113, 40068757, 55718698, 46949639, 82681816,
      88448277, 79431715, 11297055, 88266827, 46832002, 45858874, 51227448,
      19144637, 59019086, 96204039, 29146935, 12497809, 73954792, 22158662,
      45727107, 58674636, 56196889, 36616728, 47240588, 82623954, 60477216,
      292>>

Two750 ==
    <<2170624, 30255617, 94575679, 72933193, 22181885, 13649609, 61077691,
      68848451, 99355, 62626576, 25969210, 87059933, 4428268, 72799918,
      40042545, 78607512, 51629885, 47460330, 29648156, 25600917, 84572611,
      59509044, 85589473, 73288301, 6647119, 1618175, 53285574, 22386521,
      59>>

\* The least k of lo..hi with a < (2k+1) * b, where hi is such a k.
RECURSIVE NearestFrom(_, _, _, _)
NearestFrom(a, b, lo, hi) ==
    IF lo = hi THEN lo
    ELSE IF BigLess(a, BigMul(b, 2 * ((lo + hi) \div 2) + 1))
    THEN NearestFrom(a, b, lo, (lo + hi) \div 2)
    ELSE NearestFrom(a, b, (lo + hi) \div 2 + 1, hi)

\* The multiple k of 2^-1074 nearest to mant * 10^(-324-q): the k with
\* (2k-1) * 5^324 * 10^q < 2 * mant * 2^750 < (2k+1) * 5^324 * 10^q, which
\* is at most mant.  No decimal of the model lies half way between two
\* multiples.
Nearest(mant, q, five, two) ==
    NearestFrom(BigMul(BigMul(two, mant), 2), BigMul(five, Pow10(q)), 0, mant)

\* D * 1e-324 reads back as k * 2^-1074.
ReadsBack(D, k, five, two) ==
    /\ BigLess(BigMul(five, 2 * k - 1), BigMul(BigMul(two, D), 2))
    /\ BigLess(BigMul(BigMul(two, D), 2), BigMul(five, 2 * k + 1))

\* D * 1e-324 is nearer to k * 2^-1074 than E * 1e-324 is.
Nearer(D, E, k, five, two) ==
    IF D < E THEN BigLess(BigMul(five, 2 * k), BigMul(two, D + E))
    ELSE BigLess(BigMul(two, D + E), BigMul(five, 2 * k))

\* Of the decimals S * 1e-324, those of the fewest digits.
Shortest(S) == {D \in S : \A E \in S : Norm(E, 0).e <= Norm(D, 0).e}

\* What strconv.FormatFloat(k * 2^-1074, 'g', -1, 64) writes: of the
\* decimals that read back as the number the ones of the fewest digits, and
\* of these the nearest.  near is a number of 1e-324 that reads back as it.
ShortestOf(S, k, five, two) ==
    CHOOSE D \in S : \A E \in S \ {D} : Nearer(D, E, k, five, two)

DenormalOf(neg, k, near, five, two) ==
    IF k = 0 THEN Zero(neg)
    ELSE Signed(neg,
                ShortestOf(Shortest({D \in (near - 5)..(near + 5) :
                                       D > 0 /\ ReadsBack(D, k, five, two)}),
                           k, five, two),
                0 - 324)

\* The float64 nearest to the decimal f, whose digits go below 1e-323.
Denormal(f) ==
    DenormalOf(f.m < 0,
               Nearest(Abs(f.m), 0 - 324 - f.e, Five324, Two750),
               Abs(f.m) \div Pow10(0 - 324 - f.e), Five324, Two750)

\* The float64 that strconv.ParseFloat gives the decimal f: a range error
\* above the largest float64, zero of the sign of f below half the smallest,
\* and a multiple of the smallest where the float64 are that far apart.
Float64(f) ==
    LET d == Len(NatDigits(Abs(f.m)))
        n == d + f.e
    IN  IF f.m # 0 /\ (n > 309 \/ (n = 309 /\ Abs(f.m) > MaxFloatLead[d]))
        THEN [ok |-> FALSE, f |-> f]
        ELSE IF f.m # 0 /\ (n < 0 - 323
                             \/ (n = 0 - 323 /\ Abs(f.m) <= MinFloatLead[d]))
        THEN [ok |-> TRUE, f |-> Zero(f.m < 0)]
        ELSE IF f.m # 0 /\ f.e < 0 - 323
        THEN [ok |-> TRUE, f |-> Denormal(f)]
        ELSE [ok |-> TRUE, f |-> f]

(***************************************************************************)
(* encoding/json.  A decoded value (Go's any) is a record tagged by k:     *)
(* nil, bool, float64, string, []any, map[string]any, and []string for the *)
(* one place where the code builds a []string itself.  Strings and object  *)
(* keys stay sequences of characters.  The decoder reads JSON without the  *)
(* \b and \u escapes.                                                      *)
(***************************************************************************)
JNull == [k |-> "null"]

JBool(b) == [k |-> "bool", b |-> b]

JNum(f) == [k |-> "num", m |-> f.m, e |-> f.e]

JStr(cs) == [k |-> "str", s |-> cs]

JArr(a) == [k |-> "arr", a |-> a]

JObj(o) == [k |-> "obj", o |-> o]

JStrs(ss) == [k |-> "strs", ss |-> ss]

ParseFail(i) == [ok |-> FALSE, v |-> JNull, i |-> i]

RECURSIVE SkipWS(_, _)
SkipWS(cs, i) ==
    IF i <= Len(cs) /\ IsJSONSpace(cs[i]) THEN SkipWS(cs, i + 1) ELSE i

\* The parts of a decimal number -? digits (. digits)? ([eE] [+-]? digits)?
\* read from position p of cs, behind the sign: the lengths of the runs of
\* digits (ir, fr, er), whether there is a point and an exponent, the
\* position behind the number, the digits before and after the point as one
\* number, and the exponent.
ScanEnd(cs, p, ir, hasFr, fr, q2, hasEx, ep, er) ==
    [ir |-> ir, hasFr |-> hasFr, fr |-> fr, hasEx |-> hasEx, er |-> er,
     end  |-> IF hasEx THEN ep + er ELSE q2,
     mant |-> DigitsVal(SubSeq(cs, p, p + ir - 1)
                        \o SubSeq(cs, p + ir + 1, q2 - 1)),
     ex   |-> IF hasEx
              THEN (IF ep = q2 + 2 /\ cs[q2 + 1] = "-" THEN 0 - 1 ELSE 1)
                   * DigitsVal(SubSeq(cs, ep, ep + er - 1))
              ELSE 0]

ScanExp(cs, p, ir, hasFr, fr, q2, hasEx, ep) ==
    ScanEnd(cs, p, ir, hasFr, fr, q2, hasEx, ep,
            IF hasEx THEN DigitRun(cs, ep) ELSE 0)

ScanFrac(cs, p, ir, hasFr, fr, q2) ==
    LET hasEx == q2 <= Len(cs) /\ cs[q2] \in {"e", "E"}
        sgn   == hasEx /\ q2 + 1 <= Len(cs) /\ cs[q2 + 1] \in {"+", "-"}
    IN  ScanExp(cs, p, ir, hasFr, fr, q2, hasEx,
                IF sgn THEN q2 + 2 ELSE q2 + 1)

ScanPoint(cs, p, ir, hasFr, fr) ==
    ScanFrac(cs, p, ir, hasFr, fr, IF hasFr THEN p + ir + 1 + fr ELSE p + ir)

ScanInt(cs, p, ir) ==
    LET hasFr == p + ir <= Len(cs) /\ cs[p + ir] = "."
    IN  ScanPoint(cs, p, ir, hasFr,
                  IF hasFr THEN DigitRun(cs, p + ir + 1) ELSE 0)

ScanDecimal(cs, p) == ScanInt(cs, p, DigitRun(cs, p))

\* The float64 of a scanned number, as a JSON value ending before position i.
NumberValue(j, i, f) ==
    IF f.ok THEN [ok |-> TRUE, v |-> JNum(f.f), i |-> i] ELSE ParseFail(j)

\* The scanned number sc at position j of cs as JSON reads it: an integer
\* part without a leading zero, digits behind a point and behind an e.
NumberAt(cs, j, neg, sc) ==
    IF \/ sc.ir = 0
       \/ sc.ir > 1 /\ cs[IF neg THEN j + 1 ELSE j] = "0"
       \/ sc.hasFr /\ sc.fr = 0
       \/ sc.hasEx /\ sc.er = 0
    THEN ParseFail(j)
    ELSE NumberValue(j, sc.end,
                     Float64(Signed(neg, sc.mant, sc.ex - sc.fr)))

\* A JSON number starting at position j: -? int frac? exp?
ParseNumber(cs, j) ==
    NumberAt(cs, j, cs[j] = "-",
             ScanDecimal(cs, IF cs[j] = "-" THEN j + 1 ELSE j))

\* The escapes of one character behind a backslash.
Escapes == [x \in {"\"", "\\", "/", "b", "f", "n", "r", "t"} |->
              CASE x = "n" -> "\n" [] x = "t" -> "\t" [] x = "r" -> "\r"
                [] x = "f" -> "\f" [] x = "b" -> Rune(8) [] OTHER -> x]

\* getu4: the number of the escape \uXXXX at position i of cs, or -1.
getu4(cs, i) ==
    IF /\ i + 5 <= Len(cs)
       /\ cs[i] = "\\" /\ cs[i + 1] = "u"
       /\ \A k \in 2..5 : IsHexDigit(cs[i + k])
    THEN 4096 * HexDigitVal(cs[i + 2]) + 256 * HexDigitVal(cs[i + 3])
         + 16 * HexDigitVal(cs[i + 4]) + HexDigitVal(cs[i + 5])
    ELSE 0 - 1

\* The rune of the escape rr at position i, which rr1 follows: the two halves
\* of a surrogate pair are one rune, and a half on its own is U+FFFD.
Unescaped(i, rr, rr1) ==
    IF rr \in 55296..56319 /\ rr1 \in 56320..57343
    THEN [c |-> Rune(65536 + (rr - 55296) * 1024 + (rr1 - 56320)),
          i |-> i + 12]
    ELSE IF rr \in 55296..57343 THEN [c |-> Rune(65533), i |-> i + 6]
    ELSE [c |-> Rune(rr), i |-> i + 6]

\* The characters of a JSON string whose opening quote precedes position i.
RECURSIVE StrBody(_, _, _)
RECURSIVE StrBodyU(_, _, _, _)
StrBodyU(cs, i, acc, u) == StrBody(cs, u.i, Append(acc, u.c))

StrBody(cs, i, acc) ==
    IF i > Len(cs) THEN [ok |-> FALSE, s |-> acc, i |-> i]
    ELSE IF cs[i] = "\"" THEN [ok |-> TRUE, s |-> acc, i |-> i + 1]
    ELSE IF cs[i] = "\\"
         THEN IF i + 1 <= Len(cs) /\ cs[i + 1] \in DOMAIN Escapes
              THEN StrBody(cs, i + 2, Append(acc, Escapes[cs[i + 1]]))
              ELSE IF getu4(cs, i) >= 0
              THEN StrBodyU(cs, i, acc,
                            Unescaped(i, getu4(cs, i), getu4(cs, i + 6)))
              ELSE [ok |-> FALSE, s |-> acc, i |-> i]
    ELSE IF cs[i] \in ControlChars
         THEN [ok |-> FALSE, s |-> acc, i |-> i]
    ELSE StrBody(cs, i + 1, Append(acc, cs[i]))

RECURSIVE ParseValue(_, _)
RECURSIVE ArrItems(_, _, _)
RECURSIVE ArrNext(_, _, _, _)
RECURSIVE ObjItems(_, _, _)
RECURSIVE ObjValue(_, _, _, _, _)
RECURSIVE ObjNext(_, _, _, _, _)

\* The element r read at position i, and what follows it.
ArrNext(cs, i, acc, r) ==
    LET j == SkipWS(cs, r.i)
    IN  IF ~r.ok \/ j > Len(cs) THEN ParseFail(i)
        ELSE IF cs[j] = "," THEN ArrItems(cs, j + 1, Append(acc, r.v))
        ELSE IF cs[j] = "]"
             THEN [ok |-> TRUE, v |-> JArr(Append(acc, r.v)), i |-> j + 1]
        ELSE ParseFail(i)

\* The elements of an array after "[" or ",": value (, value)* ]
ArrItems(cs, i, acc) == ArrNext(cs, i, acc, ParseValue(cs, i))

\* The member of key k with the value r, and what follows it.
ObjNext(cs, i, acc, k, r) ==
    LET n == SkipWS(cs, r.i)
    IN  IF ~r.ok \/ n > Len(cs) THEN ParseFail(i)
        ELSE IF cs[n] = "," THEN ObjItems(cs, n + 1, (k :> r.v) @@ acc)
        ELSE IF cs[n] = "}"
             THEN [ok |-> TRUE, v |-> JObj((k :> r.v) @@ acc), i |-> n + 1]
        ELSE ParseFail(i)

\* The key ks, the colon at position c, and the value behind it.
ObjValue(cs, i, acc, ks, c) ==
    IF ~ks.ok \/ c > Len(cs) \/ cs[c] # ":" THEN ParseFail(i)
    ELSE ObjNext(cs, i, acc, ks.s, ParseValue(cs, c + 1))

\* The key read from position j, where a quote must stand.
ObjKey(cs, i, acc, ks) == ObjValue(cs, i, acc, ks, SkipWS(cs, ks.i))

\* The members of an object after "{" or ",": "key" : value (, ...)* }
\* A key given twice keeps its last value.
ObjItems(cs, i, acc) ==
    LET j == SkipWS(cs, i)
    IN  ObjKey(cs, i, acc,
               IF j <= Len(cs) /\ cs[j] = "\""
               THEN StrBody(cs, j + 1, <<>>)
               ELSE [ok |-> FALSE, s |-> <<>>, i |-> j])

\* The string s read behind the quote at position j.
StrValue(j, s) ==
    IF s.ok THEN [ok |-> TRUE, v |-> JStr(s.s), i |-> s.i] ELSE ParseFail(j)

\* The value at position j, where no white space is.
ValueAt(cs, j) ==
    IF j > Len(cs) THEN ParseFail(j)
    ELSE IF HasPrefixAt(cs, <<"n", "u", "l", "l">>, j)
         THEN [ok |-> TRUE, v |-> JNull, i |-> j + 4]
    ELSE IF HasPrefixAt(cs, <<"t", "r", "u", "e">>, j)
         THEN [ok |-> TRUE, v |-> JBool(TRUE), i |-> j + 4]
    ELSE IF HasPrefixAt(cs, <<"f", "a", "l", "s", "e">>, j)
         THEN [ok |-> TRUE, v |-> JBool(FALSE), i |-> j + 5]
    ELSE IF cs[j] = "\"" THEN StrValue(j, StrBody(cs, j + 1, <<>>))
    ELSE IF cs[j] = "["
         THEN LET n == SkipWS(cs, j + 1)
              IN  IF n <= Len(cs) /\ cs[n] = "]"
                  THEN [ok |-> TRUE, v |-> JArr(<<>>), i |-> n + 1]
                  ELSE ArrItems(cs, j + 1, <<>>)
    ELSE IF cs[j] = "{"
         THEN LET n == SkipWS(cs, j + 1)
              IN  IF n <= Len(cs) /\ cs[n] = "}"
                  THEN [ok |-> TRUE, v |-> JObj(EmptyMap), i |-> n + 1]
                  ELSE ObjItems(cs, j + 1, EmptyMap)
    ELSE IF cs[j] = "-" \/ IsDigit(cs[j]) THEN ParseNumber(cs, j)
    ELSE ParseFail(j)

ParseValue(cs, i) == ValueAt(cs, SkipWS(cs, i))

\* The one value r of cs, with nothing but white space behind it.
Whole(cs, r) ==
    IF r.ok /\ SkipWS(cs, r.i) > Len(cs)
    THEN [ok |-> TRUE, v |-> r.v]
    ELSE [ok |-> FALSE, v |-> JNull]

\* json.Unmarshal([]byte(value), &tagValue) with tagValue of type any.
Unmarshal(cs) == Whole(cs, ParseValue(cs, 1))

\* a < b for strings, byte by byte.
RECURSIVE StrLess(_, _)
StrLess(a, b) ==
    IF b = <<>> THEN FALSE
    ELSE IF a = <<>> THEN TRUE
    ELSE IF Head(a) = Head(b) THEN StrLess(Tail(a), Tail(b))
    ELSE Ord(Head(a)) < Ord(Head(b))

\* The keys of a map in sorted order.
RECURSIVE SortedKeys(_)
SortedKeys(ks) ==
    IF ks = {} THEN <<>>
    ELSE LET least == CHOOSE x \in ks : \A y \in ks \ {x} : StrLess(x, y)
         IN  <<least>> \o SortedKeys(ks \ {least})

\* A float64 as encoding/json writes it: format 'f' with the fewest digits,
\* format 'e' below 1e-6 and from 1e21 on, and the negative zero as -0.
FormatFloat(f) ==
    LET d    == NatDigits(Abs(f.m))
        n    == Len(d)
        sign == IF f.m < 0 THEN "-" ELSE ""
        ex   == n + f.e - 1
    IN  IF f.m = 0 THEN (IF f.e = 0 THEN "0" ELSE "-0")
        ELSE IF f.m # 0 /\ (n + f.e >= 22 \/ n + f.e <= 0 - 6)
        THEN sign \o d[1]
             \o (IF n > 1 THEN "." \o Str(SubSeq(d, 2, n)) ELSE "")
             \o "e" \o (IF ex < 0 THEN "-" ELSE "+") \o Itoa(Abs(ex))
        ELSE IF f.e >= 0 THEN sign \o Str(d \o Zeros(f.e))
        ELSE IF n > 0 - f.e
             THEN sign \o Str(SubSeq(d, 1, n + f.e)) \o "."
                  \o Str(SubSeq(d, n + f.e + 1, n))
        ELSE sign \o "0." \o Str(Zeros(0 - f.e - n) \o d)

\* A string as encoding/json writes it, with the escapes of ", \, control
\* characters, and of <, > and & (HTML escaping is on by default).  The
\* backspace and the form feed have the short forms \b and \f: the
\* repository needs Go 1.22 (reflect.TypeFor, part_017:84), whose encoder
\* writes them.  A control character without a short form, U+2028 and U+2029
\* are written as \u and four lower-case digits, which is the way they are
\* already spelled here.
RECURSIVE Quoted(_)
Quoted(cs) ==
    IF cs = <<>> THEN ""
    ELSE (CASE Head(cs) = "\"" -> "\\\""
            [] Head(cs) = "\\" -> "\\\\"
            [] Head(cs) = "\n" -> "\\n"
            [] Head(cs) = "\t" -> "\\t"
            [] Head(cs) = "\r" -> "\\r"
            [] Head(cs) = "\f" -> "\\f"
            [] Head(cs) = Rune(8) -> "\\b"
            [] Head(cs) = "<"  -> "\\u003c"
            [] Head(cs) = ">"  -> "\\u003e"
            [] Head(cs) = "&"  -> "\\u0026"
            [] OTHER -> Head(cs)) \o Quoted(Tail(cs))

\* json.Marshal(v), as a string.
RECURSIVE Marshal(_)
RECURSIVE MarshalSeq(_)
RECURSIVE MarshalMembers(_, _)
MarshalSeq(vs) ==
    IF vs = <<>> THEN ""
    ELSE Marshal(Head(vs))
         \o (IF Len(vs) > 1 THEN "," \o MarshalSeq(Tail(vs)) ELSE "")

MarshalMembers(o, ks) ==
    IF ks = <<>> THEN ""
    ELSE "\"" \o Quoted(Head(ks)) \o "\":" \o Marshal(o[Head(ks)])
         \o (IF Len(ks) > 1 THEN "," \o MarshalMembers(o, Tail(ks)) ELSE "")

Marshal(v) ==
    CASE v.k = "null" -> "null"
      [] v.k = "bool" -> IF v.b THEN "true" ELSE "false"
      [] v.k = "num"  -> FormatFloat(v)
      [] v.k = "str"  -> "\"" \o Quoted(v.s) \o "\""
      [] v.k = "arr"  -> "[" \o MarshalSeq(v.a) \o "]"
      [] v.k = "strs" -> "[" \o MarshalSeq([i \in 1..Len(v.ss) |-> JStr(v.ss[i])]) \o "]"
      [] v.k = "obj"  -> "{" \o MarshalMembers(v.o, SortedKeys(DOMAIN v.o)) \o "}"

(***************************************************************************)
(* reflect.  A struct tag is a function from its keys to their values      *)
(* (StructTag.Lookup); a type is a record of what reflect.Type reports;    *)
(* TypeOf maps each type of the model, named by its String(), to it.       *)
(***************************************************************************)
\* field.Tag.Get(key)
TagGet(tag, key) == IF key \in DOMAIN tag THEN tag[key] ELSE <<>>

\* field.Tag.Lookup(key), its second result
TagHas(tag, key) == key \in DOMAIN tag

NoTag == EmptyMap

Basic(kind) ==
    [Kind |-> kind, Name |-> kind, Elem |-> "", Len |-> 0, Fields |-> <<>>]

Named(kind, name, elem) ==
    [Kind |-> kind, Name |-> name, Elem |-> elem, Len |-> 0, Fields |-> <<>>]

Unnamed(kind) ==
    [Kind |-> kind, Name |-> "", Elem |-> "", Len |-> 0, Fields |-> <<>>]

Ptr(elem) ==
    [Kind |-> "ptr", Name |-> "", Elem |-> elem, Len |-> 0, Fields |-> <<>>]

Slice(elem) ==
    [Kind |-> "slice", Name |-> "", Elem |-> elem, Len |-> 0, Fields |-> <<>>]

Array(n, elem) ==
    [Kind |-> "array", Name |-> "", Elem |-> elem, Len |-> n, Fields |-> <<>>]

MapOf(elem) ==
    [Kind |-> "map", Name |-> "", Elem |-> elem, Len |-> 0, Fields |-> <<>>]

Struct(name, fields) ==
    [Kind |-> "struct", Name |-> name, Elem |-> "", Len |-> 0, Fields |-> fields]

\* An exported field, an embedded field, an unexported field.
F(name, typ, tag) ==
    [Name |-> name, Type |-> typ, Anonymous |-> FALSE, Exported |-> TRUE,
     Tag |-> tag]

Embed(name, typ) ==
    [Name |-> name, Type |-> typ, Anonymous |-> TRUE, Exported |-> TRUE,
     Tag |-> NoTag]

Hidden(name, typ, tag) ==
    [Name |-> name, Type |-> typ, Anonymous |-> FALSE, Exported |-> FALSE,
     Tag |-> tag]

cComma == <<",">>
cOmitempty == <<"o", "m", "i", "t", "e", "m", "p", "t", "y">>
cDash == <<"-">>
cTrue == <<"t", "r", "u", "e">>
cFalse == <<"f", "a", "l", "s", "e">>

\* The scalar kinds and the kinds no revision gives a schema to.
ScalarTypes ==
    [t \in {"bool", "int", "int8", "int16", "int32", "int64", "uint", "uint8",
            "uint16", "uint32", "uint64", "float32", "float64", "string",
            "complex128"} |-> Basic(t)]
    @@ "chan int"     :> Unnamed("chan")
    @@ "func()"       :> Unnamed("func")
    @@ "interface {}" :> Unnamed("interface")

\* Types of the standard library: the ones schemaFor knows by name
\* (part_001:408-419) and what they are made of.  Of netip.Addr, whose
\* fields are all unexported and of unexported types, the two words of addr
\* and the pointer of z are given.
LibraryTypes ==
       "time.Time" :> Struct("Time",
            <<Hidden("wall", "uint64", NoTag), Hidden("ext", "int64", NoTag),
              Hidden("loc", "*time.Location", NoTag)>>)
    @@ "*time.Time"      :> Ptr("time.Time")
    @@ "time.Location"   :> Struct("Location", <<Hidden("name", "string", NoTag)>>)
    @@ "*time.Location"  :> Ptr("time.Location")
    @@ "time.Duration"   :> Named("int64", "Duration", "")
    @@ "net.IP"          :> Named("slice", "IP", "uint8")
    @@ "url.URL" :> Struct("URL",
            <<F("Scheme", "string", NoTag), F("Opaque", "string", NoTag),
              F("User", "*url.Userinfo", NoTag), F("Host", "string", NoTag),
              F("Path", "string", NoTag), F("RawPath", "string", NoTag),
              F("OmitHost", "bool", NoTag), F("ForceQuery", "bool", NoTag),
              F("RawQuery", "string", NoTag), F("Fragment", "string", NoTag),
              F("RawFragment", "string", NoTag)>>)
    @@ "url.Userinfo" :> Struct("Userinfo",
            <<Hidden("username", "string", NoTag),
              Hidden("password", "string", NoTag),
              Hidden("passwordSet", "bool", NoTag)>>)
    @@ "*url.Userinfo"   :> Ptr("url.Userinfo")
    @@ "netip.Addr" :> Struct("Addr",
            <<Hidden("hi", "uint64", NoTag), Hidden("lo", "uint64", NoTag),
              Hidden("z", "*uint8", NoTag)>>)
    @@ "json.RawMessage" :> Named("slice", "RawMessage", "uint8")
    @@ "*json.RawMessage" :> Ptr("json.RawMessage")

\* Pointers, slices, arrays and maps.
CompositeTypes ==
       "*bool"    :> Ptr("bool")
    @@ "*int64"   :> Ptr("int64")
    @@ "*string"  :> Ptr("string")
    @@ "**uint8"  :> Ptr("*uint8")
    @@ "*uint8"   :> Ptr("uint8")
    @@ "[]uint8"  :> Slice("uint8")
    @@ "[4]uint8" :> Array(4, "uint8")
    @@ "[]int"    :> Slice("int")
    @@ "[2]int"   :> Array(2, "int")
    @@ "[]string" :> Slice("string")
    @@ "[][]int"  :> Slice("[]int")
    @@ "[][]string" :> Slice("[]string")
    @@ "[]chan int" :> Slice("chan int")
    @@ "map[string]string" :> MapOf("string")
    @@ "map[string][]int"  :> MapOf("[]int")
    @@ "map[string]func()" :> MapOf("func()")

\* The records of the package's tests (part_000:21-47, schema_test.go:15-40)
\* and the anonymous records of their "field-embed" cases.
TestTypes ==
       "schema_test.RecursiveChildKey" :> Struct("RecursiveChildKey",
            <<F("Key", "string", "json" :> <<"k", "e", "y">>),
              F("Self", "*schema_test.RecursiveChildKey",
                "json" :> <<"s", "e", "l", "f", ",", "o", "m", "i", "t", "e", "m", "p", "t", "y">>)>>)
    @@ "*schema_test.RecursiveChildKey" :> Ptr("schema_test.RecursiveChildKey")
    @@ "[]schema_test.RecursiveChildKey" :> Slice("schema_test.RecursiveChildKey")
    @@ "[1]schema_test.RecursiveChildKey" :>
            Array(1, "schema_test.RecursiveChildKey")
    @@ "schema_test.RecursiveChild" :> Struct("RecursiveChild",
            <<Embed("RecursiveChildLoop", "schema_test.RecursiveChildLoop")>>)
    @@ "*schema_test.RecursiveChild" :> Ptr("schema_test.RecursiveChild")
    @@ "schema_test.RecursiveChildLoop" :> Struct("RecursiveChildLoop",
            <<Embed("RecursiveChild", "*schema_test.RecursiveChild"),
              F("Slice", "[]*schema_test.RecursiveChildLoop",
                "json" :> <<"s", "l", "i", "c", "e">>),
              F("Array", "[1]*schema_test.RecursiveChildLoop",
                "json" :> <<"a", "r", "r", "a", "y">>),
              F("ByValue", "schema_test.RecursiveChildKey",
                "json" :> <<"b", "y", "V", "a", "l", "u", "e">>),
              F("ByRef", "*schema_test.RecursiveChildKey",
                "json" :> <<"b", "y", "R", "e", "f">>)>>)
    @@ "*schema_test.RecursiveChildLoop" :> Ptr("schema_test.RecursiveChildLoop")
    @@ "[]*schema_test.RecursiveChildLoop" :>
            Slice("*schema_test.RecursiveChildLoop")
    @@ "[1]*schema_test.RecursiveChildLoop" :>
            Array(1, "*schema_test.RecursiveChildLoop")
    @@ "schema_test.EmbeddedChild" :> Struct("EmbeddedChild",
            <<F("Value", "string",
                "json" :> <<"v", "a", "l", "u", "e">> @@ "description" :> <<"o", "l", "d", " ", "d", "o", "c">>)>>)
    @@ "schema_test.Embedded" :> Struct("Embedded",
            <<Embed("EmbeddedChild", "schema_test.EmbeddedChild"),
              F("Value", "string",
                "json" :> <<"v", "a", "l", "u", "e">> @@ "description" :> <<"n", "e", "w", " ", "d", "o", "c">>)>>)
    @@ "*schema_test.Embedded" :> Ptr("schema_test.Embedded")
    @@ "struct{*Embedded;Value2}" :> Struct("",
            <<Embed("Embedded", "*schema_test.Embedded"),
              F("Value2", "string", "json" :> <<"v", "a", "l", "u", "e", "2">>)>>)
    @@ "struct{Embedded;Value}" :> Struct("",
            <<Embed("Embedded", "schema_test.Embedded"),
              F("Value", "string",
                "json" :> <<"o", "v", "e", "r", "r", "i", "d", "e">> @@ "description" :> <<"o", "v", "e", "r", "r", "i", "d", "e">>)>>)
    @@ "struct{_;Value}" :> Struct("",
            <<Hidden("_", "struct{}",
                "json" :> cDash @@ "additionalProperties" :> cTrue),
              F("Value", "string", "json" :> <<"v", "a", "l", "u", "e">>)>>)
    @@ "struct{}" :> Struct("", <<>>)

\* Further records: a named record reached from roots of every shape, fields
\* of different names with one target name, records with one or two blank
\* fields, a named slice that is its own element, a record that is the value
\* of its own map, an embedded pointer to a
\* type that is no record, a field X promoted from two embedding depths,
\* records whose second field is of a named record type and has an enum tag.
MoreTypes ==
       "struct{A;B}" :> Struct("",
            <<F("A", "schema_test.RecursiveChildKey", "json" :> <<"a">>),
              F("B", "*schema_test.RecursiveChildKey", "json" :> <<"b">>)>>)
    @@ "schema_test.Pair" :> Struct("Pair",
            <<F("Left", "schema_test.RecursiveChildKey", "json" :> <<"l", "e", "f", "t">>),
              F("Right", "schema_test.RecursiveChildKey", "json" :> <<"r", "i", "g", "h", "t">>),
              F("Next", "*schema_test.Pair", "json" :> <<"n", "e", "x", "t">>)>>)
    @@ "*schema_test.Pair" :> Ptr("schema_test.Pair")
    @@ "schema_test.ShadowBase" :> Struct("ShadowBase",
            <<F("B", "int",
                "json" :> <<"v">> @@ "description" :> <<"o", "l", "d", " ", "d", "o", "c">>)>>)
    @@ "schema_test.Shadow" :> Struct("Shadow",
            <<Embed("ShadowBase", "schema_test.ShadowBase"),
              F("A", "string",
                "json" :> <<"v">> @@ "description" :> <<"n", "e", "w", " ", "d", "o", "c">>)>>)
    @@ "schema_test.Open" :> Struct("Open",
            <<Hidden("_", "struct{}", "additionalProperties" :> cTrue),
              F("W", "string", "json" :> <<"w">>)>>)
    @@ "schema_test.Closed" :> Struct("Closed",
            <<Hidden("_", "struct{}", "additionalProperties" :> cFalse),
              F("V", "string", "json" :> <<"v">>)>>)
    @@ "struct{_;_;V}" :> Struct("",
            <<Hidden("_", "struct{}", NoTag),
              Hidden("_", "struct{}", "additionalProperties" :> cTrue),
              F("V", "string", "json" :> <<"v">>)>>)
    @@ "struct{Open;V}" :> Struct("",
            <<Embed("Open", "schema_test.Open"),
              F("V", "string", "json" :> <<"v">>)>>)
    @@ "struct{_ yes;V}" :> Struct("",
            <<Hidden("_", "struct{}", "additionalProperties" :> <<"y", "e", "s">>),
              F("V", "string", "json" :> <<"v">>)>>)
    @@ "map[string]schema_test.Closed" :> MapOf("schema_test.Closed")
    @@ "struct{M;O;C}" :> Struct("",
            <<F("M", "map[string]schema_test.Closed", "json" :> <<"m">>),
              F("O", "schema_test.Open", "json" :> <<"o", ",", "o", "m", "i", "t", "e", "m", "p", "t", "y">>),
              F("C", "schema_test.Closed", "json" :> <<"c">>)>>)
    @@ "schema_test.List" :> Named("slice", "List", "schema_test.List")
    @@ "schema_test.Tree" :> Struct("Tree",
            <<F("Kids", "map[string]schema_test.Tree", "json" :> <<"k", "i", "d", "s">>)>>)
    @@ "map[string]schema_test.Tree" :> MapOf("schema_test.Tree")
    @@ "schema_test.MyInt" :> Named("int", "MyInt", "")
    @@ "*schema_test.MyInt" :> Ptr("schema_test.MyInt")
    @@ "struct{*MyInt;V}" :> Struct("",
            <<Embed("MyInt", "*schema_test.MyInt"),
              F("V", "string", "json" :> <<"v">>)>>)
    @@ "schema_test.Deep" :> Struct("Deep",
            <<F("X", "int", "json" :> <<"x">> @@ "description" :> <<"d", "e", "e", "p">>)>>)
    @@ "schema_test.Mid" :> Struct("Mid",
            <<Embed("Deep", "schema_test.Deep")>>)
    @@ "schema_test.Near" :> Struct("Near",
            <<F("X", "string", "json" :> <<"x">> @@ "description" :> <<"n", "e", "a", "r">>)>>)
    @@ "struct{Mid;Near}" :> Struct("",
            <<Embed("Mid", "schema_test.Mid"),
              Embed("Near", "schema_test.Near")>>)
    @@ "struct{Near;Mid}" :> Struct("",
            <<Embed("Near", "schema_test.Near"),
              Embed("Mid", "schema_test.Mid")>>)
    @@ "struct{A;V true}" :> Struct("",
            <<F("A", "schema_test.Near", "json" :> <<"a">>),
              F("V", "schema_test.Deep",
                "json" :> <<"v">> @@ "enum" :> <<"t", "r", "u", "e">>)>>)
    @@ "struct{A;V text}" :> Struct("",
            <<F("A", "schema_test.Near", "json" :> <<"a">>),
              F("V", "schema_test.Deep",
                "json" :> <<"v">> @@ "enum" :> <<"{", "\"", "x", "\"", ":", "\"", "s", "\"", "}">>)>>)
    @@ "struct{A;V one}" :> Struct("",
            <<F("A", "schema_test.Near", "json" :> <<"a">>),
              F("V", "schema_test.Deep",
                "json" :> <<"v">> @@ "enum" :> <<"{", "\"", "x", "\"", ":", "1", "}">>)>>)
    @@ "struct{Foo;Bar}" :> Struct("",
            <<F("Foo", "string", "json" :> <<"f", "o", "o">>),
              F("Bar", "int", "json" :> <<"b", "a", "r">>)>>)
    @@ "[]struct{Foo;Bar}" :> Slice("struct{Foo;Bar}")

FixedTypes ==
    ScalarTypes @@ LibraryTypes @@ CompositeTypes @@ TestTypes @@ MoreTypes

\* The record  struct { V T "tag" }  whose field the state variable probe
\* gives: probe.typ is T, probe.tag the field's struct tag.
ProbeRecord == "struct{V}"

\* The reflect.Type of the type named t.
TypeOf(t) ==
    IF t = ProbeRecord
    THEN Struct("", <<F("V", probe.typ, probe.tag)>>)
    ELSE FixedTypes[t]

Types == DOMAIN FixedTypes \cup {ProbeRecord}

(***************************************************************************)
(* The Schema struct (part_001:27-53 and :344-386), one record for both    *)
(* revisions.  A nil pointer or slice is <<>>, a pointer to x is <<x>>;    *)
(* Type is <<>> when unset, <<"string">>, or <<"string", "null">> where    *)
(* the $defs-producing revision stores a []string; a nil and an empty map  *)
(* are both EmptyMap (the code and the JSON encoding treat them alike).    *)
(***************************************************************************)
APNil == [k |-> "nil"]

APBool(b) == [k |-> "bool", b |-> b]

APSchema(s) == [k |-> "schema", s |-> s]

ZeroSchema ==
    [Ref |-> "", Definitions |-> EmptyMap,
     Items |-> <<>>, Properties |-> EmptyMap, AdditionalProperties |-> APNil,
     Type |-> <<>>, Enum |-> <<>>,
     MultipleOf |-> <<>>, Maximum |-> <<>>, ExclusiveMaximum |-> <<>>,
     Minimum |-> <<>>, ExclusiveMinimum |-> <<>>,
     MaxLength |-> <<>>, MinLength |-> <<>>, Pattern |-> "",
     MaxItems |-> <<>>, MinItems |-> <<>>, UniqueItems |-> FALSE,
     MaxProperties |-> <<>>, MinProperties |-> <<>>, Required |-> <<>>,
     Format |-> "", ContentEncoding |-> "",
     Title |-> "", Description |-> "", Examples |-> <<>>]

typeBoolean == <<"boolean">>
typeInteger == <<"integer">>
typeNumber  == <<"number">>
typeString  == <<"string">>
typeArray   == <<"array">>
typeObject  == <<"object">>

(***************************************************************************)
(* Errors.  An error is the record of what its text is formatted from.     *)
(* A panicking call yields the set of errors it can raise: more than one   *)
(* where the outcome depends on the order in which Go ranges over a map.   *)
(***************************************************************************)
NoErr ==
    [msg |-> "", tag |-> "", kind |-> <<>>, value |-> "", field |-> "",
     cause |-> ""]

\* fmt.Errorf("unsupported type: %v", typ)
UnsupportedType(t) == [NoErr EXCEPT !.msg = "unsupported type", !.value = t]

\* fmt.Errorf("invalid bool tag '%s' for field '%s': %v", tag, field.Name, value)
\* and its likes for int and float tags.
InvalidTag(what, tag, field, value, cause) ==
    [NoErr EXCEPT !.msg = "invalid " \o what \o " tag", !.tag = tag,
                  !.field = field, !.value = Str(value), !.cause = cause]

\* fmt.Errorf("invalid %s tag value '%s' for field '%s'", schema.Type, value, fieldName)
InvalidValue(kind, value, field, cause) ==
    [NoErr EXCEPT !.msg = "invalid tag value", !.kind = kind, !.value = value,
                  !.field = field, !.cause = cause]

\* The panics of the runtime and of package reflect, as recover() turns them
\* into errors.
RuntimeError(text, what) == [NoErr EXCEPT !.msg = text, !.value = what]

\* The outcome of a call that may panic: a value, the errors one of which it
\* panics with, or the exhaustion of the goroutine's stack.
Ok(x) == [st |-> "ok", x |-> x, errs |-> {}]

Panic(errs) == [st |-> "panic", x |-> <<>>, errs |-> errs]

Overflow == [st |-> "overflow", x |-> <<>>, errs |-> {}]

\* The first outcome of rs, taken in order, that is not a value; Ok(<<>>)
\* when all are values.
RECURSIVE FirstFailure(_)
FirstFailure(rs) ==
    IF rs = <<>> THEN Ok(<<>>)
    ELSE IF Head(rs).st # "ok" THEN [Head(rs) EXCEPT !.x = <<>>]
    ELSE FirstFailure(Tail(rs))

\* The depth of recursion at which the goroutine's stack is exhausted.
MaxDepth == 5

\* Kind() == reflect.Pointer is followed to the element.
RECURSIVE Deref(_)
RECURSIVE DerefType(_, _)
DerefType(t, rt) == IF rt.Kind = "ptr" THEN Deref(rt.Elem) ELSE t

Deref(t) == DerefType(t, TypeOf(t))

(***************************************************************************)
(* getFields, part_001:162-193 and :518-549 (the same text in both         *)
(* revisions).  The result is the fields and the visited set, which the Go *)
(* code shares between the recursive calls; NumField panics on a type that *)
(* is no struct.                                                           *)
(***************************************************************************)
RECURSIVE getFields(_, _)
RECURSIVE getEmbedded(_, _, _)
RECURSIVE embeddedFields(_, _, _, _)
RECURSIVE appendFields(_, _, _)

NoFields(visited) ==
    [st |-> "ok", fields |-> <<>>, visited |-> visited, errs |-> {}]

\* fields = append(fields, getFields(...)...), part_001:541 and :543: sub is
\* what the call of getFields comes to.
appendFields(embedded, fields, sub) ==
    IF sub.st # "ok" THEN sub
    ELSE getEmbedded(Tail(embedded), fields \o sub.fields, sub.visited)

\* The switch on the kind of an embedded field, part_001:539-544; rt is the
\* field's type.
embeddedFields(embedded, fields, visited, rt) ==
    IF rt.Kind \notin {"struct", "ptr"}
    THEN getEmbedded(Tail(embedded), fields, visited)
    ELSE appendFields(embedded, fields,
                      getFields(IF rt.Kind = "struct" THEN Head(embedded).Type
                                ELSE rt.Elem, visited))

\* The loop over the embedded fields, part_001:538-546.
getEmbedded(embedded, fields, visited) ==
    IF embedded = <<>>
    THEN [st |-> "ok", fields |-> fields, visited |-> visited, errs |-> {}]
    ELSE embeddedFields(embedded, fields, visited,
                        TypeOf(Head(embedded).Type))

\* A faulty getFields that puts the promoted fields before the record's own.
fieldsOf_EmbeddedFirst(typ, visited, rt) ==
    IF rt.Kind # "struct"
    THEN [st |-> "panic", fields |-> <<>>, visited |-> visited \cup {typ},
          errs |-> {RuntimeError("reflect: NumField of non-struct type", typ)}]
    ELSE [getEmbedded(SelectSeq(rt.Fields,
                                LAMBDA f : f.Exported /\ f.Anonymous),
                      <<>>, visited \cup {typ})
            EXCEPT !.fields =
               @ \o SelectSeq(rt.Fields,
                              LAMBDA f : f.Exported /\ ~f.Anonymous)]

\* getFields on a type that was not visited; rt is the type.
fieldsOf(typ, visited, rt) ==
    IF rt.Kind # "struct"
    THEN [st |-> "panic", fields |-> <<>>, visited |-> visited \cup {typ},
          errs |-> {RuntimeError("reflect: NumField of non-struct type", typ)}]
    ELSE getEmbedded(SelectSeq(rt.Fields, LAMBDA f : f.Exported /\ f.Anonymous),
                     SelectSeq(rt.Fields, LAMBDA f : f.Exported /\ ~f.Anonymous),
                     visited \cup {typ})

getFields(typ, visited) ==
    IF typ \in visited THEN NoFields(visited)
    ELSE fieldsOf(typ, visited, TypeOf(typ))

(***************************************************************************)
(* reflect's Type.FieldByName: the first field of that name of the struct  *)
(* itself; failing that, the one field of that name among the structs      *)
(* embedded at the least depth that has any (none when that depth has      *)
(* several, or has its struct by two paths).                               *)
(***************************************************************************)
NotFound == [ok |-> FALSE, field |-> F("", "", NoTag)]

\* The fields of the struct t.
Fields(t) == TypeOf(t).Fields

\* The struct the embedded field f gives, or "" when it gives none; t is the
\* field's type with a pointer taken off.
structOf(f, t) == IF f.Anonymous /\ TypeOf(t).Kind = "struct" THEN t ELSE ""

pointee(t, rt) == IF rt.Kind = "ptr" THEN rt.Elem ELSE t

EmbeddedStruct(f) == structOf(f, pointee(f.Type, TypeOf(f.Type)))

\* The fields of the structs cur that have the name, as pairs of a struct and
\* an index; all maps each struct to its fields.
fieldsCalled(cur, all, name) ==
    UNION {{<<t, i>> : i \in {i \in 1..Len(all[t]) : all[t][i].Name = name}} :
           t \in cur}

\* The fields of the structs cur that embed the struct s.
embeddings(cur, all, s) ==
    UNION {{<<t, i>> : i \in {i \in 1..Len(all[t]) :
                                 EmbeddedStruct(all[t][i]) = s}} :
           t \in cur}

\* level maps the structs at the current depth to 1 or 2: whether they were
\* reached by one path or by more.  The structs of the next depth are the
\* ones embedded in the structs of this depth that were not visited; emb
\* maps each struct to the fields that embed it.
levelCount(level, hs) ==
    IF Cardinality(hs) > 1 \/ \E h \in hs : level[h[1]] > 1 THEN 2 ELSE 1

nextLevelOf(level, emb) ==
    [s \in {s \in DOMAIN emb : emb[s] # {}} |-> levelCount(level, emb[s])]

nextLevel(level, cur, all) ==
    nextLevelOf(level, [s \in Types |-> embeddings(cur, all, s)])

RECURSIVE fieldByNameFunc(_, _, _)
RECURSIVE fieldAmong(_, _, _, _, _, _)

\* hits are the fields of that name at the current depth.
fieldAmong(level, visited, name, cur, all, hits) ==
    IF cur = {} THEN NotFound
    ELSE IF hits # {}
         THEN IF Cardinality(hits) = 1 /\ \A h \in hits : level[h[1]] = 1
              THEN [ok |-> TRUE,
                    field |-> CHOOSE f \in {all[h[1]][h[2]] : h \in hits} : TRUE]
              ELSE NotFound
    ELSE fieldByNameFunc(nextLevel(level, cur, all), visited \cup cur, name)

fieldsNamed(level, visited, name, cur, all) ==
    fieldAmong(level, visited, name, cur, all, fieldsCalled(cur, all, name))

fieldByNameFunc(level, visited, name) ==
    fieldsNamed(level, visited, name, DOMAIN level \ visited,
                [t \in DOMAIN level \ visited |-> Fields(t)])

\* The struct's own fields all come before the embedded ones.
ownField(typ, name, all, own) ==
    IF own # {}
    THEN [ok |-> TRUE, field |-> all[CHOOSE i \in own : \A j \in own : i <= j]]
    ELSE IF \E i \in 1..Len(all) : all[i].Anonymous
         THEN fieldByNameFunc(typ :> 1, {}, name)
    ELSE NotFound

fieldNamed(typ, name, all) ==
    ownField(typ, name, all, {i \in 1..Len(all) : all[i].Name = name})

FieldByName(typ, name) == fieldNamed(typ, name, Fields(typ))

(***************************************************************************)
(* The tag readers, part_001:600-642 (boolTag also :229-243).              *)
(***************************************************************************)
\* A faulty boolTag that takes "false" for true.
boolTag_Swapped(field, tag) ==
    LET value == TagGet(field.Tag, tag)
    IN  IF value = <<>> THEN Ok(FALSE)
        ELSE IF value = cTrue THEN Ok(TRUE)
        ELSE IF value = cFalse THEN Ok(TRUE)
        ELSE Panic({InvalidTag("bool", tag, field.Name, value, "")})

boolTag(field, tag) ==
    LET value == TagGet(field.Tag, tag)
    IN  IF value = <<>> THEN Ok(FALSE)
        ELSE IF value = cTrue THEN Ok(TRUE)
        ELSE IF value = cFalse THEN Ok(FALSE)
        ELSE Panic({InvalidTag("bool", tag, field.Name, value, "")})

\* The greatest int of a build whose ints have w bits, and the magnitude
\* of the least.
MaxIntDigits(w) ==
    IF w = 32 THEN <<"2", "1", "4", "7", "4", "8", "3", "6", "4", "7">> ELSE <<"9", "2", "2", "3", "3", "7", "2", "0", "3", "6", "8", "5", "4", "7", "7", "5", "8", "0", "7">>

MinIntDigits(w) ==
    IF w = 32 THEN <<"2", "1", "4", "7", "4", "8", "3", "6", "4", "8">> ELSE <<"9", "2", "2", "3", "3", "7", "2", "0", "3", "6", "8", "5", "4", "7", "7", "5", "8", "0", "8">>

\* The digits ds without their leading zeros.
RECURSIVE StripZeros(_)
StripZeros(ds) ==
    IF Len(ds) > 1 /\ Head(ds) = "0" THEN StripZeros(Tail(ds)) ELSE ds

\* Whether the number of the digits as is at most that of the digits bs;
\* neither has a leading zero.
RECURSIVE DigitsLE(_, _)
DigitsLE(as, bs) ==
    IF Len(as) # Len(bs) THEN Len(as) < Len(bs)
    ELSE IF as = <<>> THEN TRUE
    ELSE IF Head(as) # Head(bs) THEN DigitVal(Head(as)) < DigitVal(Head(bs))
    ELSE DigitsLE(Tail(as), Tail(bs))

\* A Go int: the number, or for a magnitude of more than nine digits its
\* sign and digits.
IntOf(neg, mag) ==
    IF Len(mag) > 9 THEN [neg |-> neg, digits |-> mag]
    ELSE IF neg THEN 0 - DigitsVal(mag) ELSE DigitsVal(mag)

\* strconv.Atoi on a build whose ints have w bits: an optional sign and
\* decimal digits, within the range of int.
Atoi(cs, w) ==
    LET signed == cs # <<>> /\ Head(cs) \in {"+", "-"}
        neg    == cs # <<>> /\ Head(cs) = "-"
        ds     == IF signed THEN Tail(cs) ELSE cs
    IN  IF ds = <<>> \/ DigitRun(ds, 1) # Len(ds)
        THEN [ok |-> FALSE, n |-> 0]
        ELSE IF ~DigitsLE(StripZeros(ds),
                          IF neg THEN MinIntDigits(w) ELSE MaxIntDigits(w))
        THEN [ok |-> FALSE, n |-> 0]
        ELSE [ok |-> TRUE, n |-> IntOf(neg, StripZeros(ds))]

\* The int that strconv.Atoi made of the tag's value.
intTagOf(field, tag, value, r) ==
    IF r.ok THEN Ok(<<r.n>>)
    ELSE Panic({InvalidTag("int", tag, field.Name, value, "strconv.Atoi")})

intTagValue(field, tag, value) ==
    IF value = <<>> THEN Ok(<<>>)
    ELSE intTagOf(field, tag, value, Atoi(value, bits))

intTag(field, tag) == intTagValue(field, tag, TagGet(field.Tag, tag))

\* The scanned number sc of cs as strconv.ParseFloat reads it: a digit before
\* or behind the point, digits behind an e, and nothing behind the number.
FloatOf(cs, neg, sc) ==
    IF sc.ir + sc.fr = 0 \/ (sc.hasEx /\ sc.er = 0) \/ sc.end # Len(cs) + 1
    THEN [ok |-> FALSE, f |-> Norm(0, 0)]
    ELSE Float64(Signed(neg, sc.mant, sc.ex - sc.fr))

\* The infinities and NaN, which have no decimal.
Inf(neg) == [m |-> IF neg THEN 0 - 1 ELSE 1, e |-> 0, special |-> "Inf"]

NaN == [m |-> 0, e |-> 0, special |-> "NaN"]

\* strconv's special: "inf" and "infinity" with an optional sign, "nan"
\* without one, in any case of the letters.
Special(cs) ==
    LET signed == cs # <<>> /\ Head(cs) \in {"+", "-"}
        word   == LowerSeq(IF signed THEN Tail(cs) ELSE cs)
    IN  IF word \in {<<"i", "n", "f">>, <<"i", "n", "f", "i", "n", "i", "t", "y">>}
        THEN [ok |-> TRUE, f |-> Inf(Head(cs) = "-")]
        ELSE IF ~signed /\ word = <<"n", "a", "n">> THEN [ok |-> TRUE, f |-> NaN]
        ELSE [ok |-> FALSE, f |-> Norm(0, 0)]

\* The length of the run of hexadecimal digits of cs from position i on.
RECURSIVE HexRun(_, _)
HexRun(cs, i) ==
    IF i <= Len(cs) /\ IsHexDigit(cs[i]) THEN 1 + HexRun(cs, i + 1) ELSE 0

RECURSIVE HexVal(_)
HexVal(ds) ==
    IF ds = <<>> THEN 0
    ELSE 16 * HexVal(SubSeq(ds, 1, Len(ds) - 1)) + HexDigitVal(ds[Len(ds)])

RECURSIVE Pow(_, _)
Pow(b, n) == IF n = 0 THEN 1 ELSE b * Pow(b, n - 1)

\* The number of bits of the natural number n.
RECURSIVE BitLen(_)
BitLen(n) == IF n = 0 THEN 0 ELSE 1 + BitLen(n \div 2)

\* The float64 of m * 2^x: a range error from 2^1024 on, zero of the sign
\* of the number below the least float64, and else its decimal.
HexValue(neg, m, x) ==
    IF m = 0 THEN [ok |-> TRUE, f |-> Zero(neg)]
    ELSE IF BitLen(m) + x > 1024 THEN [ok |-> FALSE, f |-> Inf(neg)]
    ELSE IF BitLen(m) + x < 0 - 1074 THEN [ok |-> TRUE, f |-> Zero(neg)]
    ELSE [ok |-> TRUE,
          f  |-> IF x >= 0
                 THEN Norm((IF neg THEN 0 - m ELSE m) * Pow(2, x), 0)
                 ELSE Norm((IF neg THEN 0 - m ELSE m) * Pow(5, 0 - x), x)]

\* A hexadecimal mantissa with ir digits before the point and fr behind
\* it, and what follows it from position q of cs on: p sign? digits.
HexExp(cs, neg, ir, hasFr, fr, q) ==
    LET sgn == q + 1 <= Len(cs) /\ cs[q + 1] \in {"+", "-"}
        ep  == IF sgn THEN q + 2 ELSE q + 1
        er  == DigitRun(cs, ep)
    IN  IF \/ ir + fr = 0
           \/ q > Len(cs)
           \/ Lower(cs[q]) # "p"
           \/ er = 0
           \/ ep + er # Len(cs) + 1
        THEN [ok |-> FALSE, f |-> Norm(0, 0)]
        ELSE HexValue(neg,
                      HexVal(SubSeq(cs, 1, ir)
                             \o SubSeq(cs, ir + 2, ir + 1 + fr)),
                      (IF sgn /\ cs[q + 1] = "-" THEN 0 - 1 ELSE 1)
                         * DigitsVal(SubSeq(cs, ep, ep + er - 1))
                       - 4 * fr)

HexFrac(cs, neg, ir, hasFr) ==
    HexExp(cs, neg, ir, hasFr,
           IF hasFr THEN HexRun(cs, ir + 2) ELSE 0,
           IF hasFr THEN ir + 2 + HexRun(cs, ir + 2) ELSE ir + 1)

\* The hexadecimal number cs, behind its sign and its 0x.
HexFloat(cs, neg) ==
    HexFrac(cs, neg, HexRun(cs, 1),
            HexRun(cs, 1) + 1 <= Len(cs) /\ cs[HexRun(cs, 1) + 1] = ".")

\* strconv's underscoreOK from position i of s on: an underscore stands
\* between two digits, or between a base prefix and a digit.  saw is "0"
\* after a digit, "_" after an underscore, "!" after another character and
\* "^" at the start.
RECURSIVE underscoresFrom(_, _, _, _)
underscoresFrom(s, i, saw, hex) ==
    IF i > Len(s) THEN saw # "_"
    ELSE IF IsDigit(s[i]) \/ (hex /\ IsHexDigit(s[i]))
    THEN underscoresFrom(s, i + 1, "0", hex)
    ELSE IF s[i] = "_"
    THEN saw = "0" /\ underscoresFrom(s, i + 1, "_", hex)
    ELSE saw # "_" /\ underscoresFrom(s, i + 1, "!", hex)

HasPrefix0(s, letters) ==
    Len(s) >= 2 /\ s[1] = "0" /\ Lower(s[2]) \in letters

underscoreOK(cs) ==
    LET s == IF cs # <<>> /\ Head(cs) \in {"+", "-"} THEN Tail(cs) ELSE cs
    IN  IF HasPrefix0(s, {"b", "o", "x"})
        THEN underscoresFrom(s, 3, "0", Lower(s[2]) = "x")
        ELSE underscoresFrom(s, 1, "^", FALSE)

\* strconv's readFloat on cs without underscores: a hexadecimal number
\* when 0x and something more follow the sign, else a decimal one, sign?
\* digits? (. digits?)? with a digit somewhere, then (e sign? digits)?.
readFloat(cs) ==
    LET signed == cs # <<>> /\ Head(cs) \in {"+", "-"}
        neg    == cs # <<>> /\ Head(cs) = "-"
        s      == IF signed THEN Tail(cs) ELSE cs
    IN  IF Len(s) > 2 /\ HasPrefix0(s, {"x"})
        THEN HexFloat(SubSeq(s, 3, Len(s)), neg)
        ELSE FloatOf(cs, neg, ScanDecimal(cs, IF signed THEN 2 ELSE 1))

\* strconv.ParseFloat(cs, 64) when cs is no special value.
parsedFloat(cs) ==
    IF \E i \in 1..Len(cs) : cs[i] = "_"
    THEN IF underscoreOK(cs)
         THEN readFloat(SelectSeq(cs, LAMBDA c : c # "_"))
         ELSE [ok |-> FALSE, f |-> Norm(0, 0)]
    ELSE readFloat(cs)

\* strconv.ParseFloat(cs, 64)
ParseFloat(cs) ==
    IF Special(cs).ok THEN Special(cs) ELSE parsedFloat(cs)

\* The float64 that strconv.ParseFloat made of the tag's value.
floatTagOf(field, tag, value, r) ==
    IF r.ok THEN Ok(<<r.f>>)
    ELSE Panic({InvalidTag("float", tag, field.Name, value,
                           "strconv.ParseFloat")})

floatTagValue(field, tag, value) ==
    IF value = <<>> THEN Ok(<<>>)
    ELSE floatTagOf(field, tag, value, ParseFloat(value))

floatTag(field, tag) == floatTagValue(field, tag, TagGet(field.Tag, tag))

(***************************************************************************)
(* ensureType, part_001:669-711 (and :270-312): the errors the check of    *)
(* tagValue against schema can panic with, none when it returns.  The loop *)
(* over an array stops at the first element that fails; the loop over      *)
(* schema.Properties ranges over a Go map, so that any property that fails *)
(* can be the one met first.                                               *)
(***************************************************************************)
RECURSIVE ensureType(_, _, _, _)
RECURSIVE ensureItems(_, _, _, _)

\* The panic of the first of two steps that has one.
OrElse(errs, rest) == IF errs # {} THEN errs ELSE rest

\* A faulty loop that goes on after a failure and reports the last one.
RECURSIVE ensureItems_Last(_, _, _, _)
ensureItems_Last(fieldName, schema, items, i) ==
    IF i >= Len(items) THEN {}
    ELSE OrElse(ensureItems_Last(fieldName, schema, items, i + 1),
                ensureType(fieldName \o "[" \o Itoa(i) \o "]", schema,
                           Marshal(items[i + 1]), items[i + 1]))

\* The loop of part_001:694-697 from index i (counted from 0) on.
ensureItems(fieldName, schema, items, i) ==
    IF i >= Len(items) THEN {}
    ELSE OrElse(ensureType(fieldName \o "[" \o Itoa(i) \o "]", schema,
                           Marshal(items[i + 1]), items[i + 1]),
                ensureItems(fieldName, schema, items, i + 1))

ensureType(fieldName, schema, value, tagValue) ==
    LET bad == {InvalidValue(schema.Type, value, fieldName, "")}
    IN  CASE schema.Type = typeBoolean ->
               IF tagValue.k = "bool" THEN {} ELSE bad
          [] schema.Type = typeNumber ->
               IF tagValue.k = "num" THEN {} ELSE bad
          [] schema.Type = typeInteger ->
               IF tagValue.k = "num" /\ RoundTripsInt(tagValue, bits)
               THEN {} ELSE bad
          [] schema.Type = typeString ->
               IF tagValue.k = "str" THEN {} ELSE bad
          [] schema.Type = typeArray ->
               IF tagValue.k # "arr" THEN bad
               ELSE IF schema.Items = <<>> THEN {}
               ELSE ensureItems(fieldName, schema.Items[1], tagValue.a, 0)
          [] schema.Type = typeObject ->
               IF tagValue.k # "obj" THEN bad
               ELSE UNION {ensureType(fieldName \o "." \o Str(key),
                                      schema.Properties[Str(key)],
                                      Marshal(tagValue.o[key]), tagValue.o[key]) :
                           key \in {k \in DOMAIN tagValue.o :
                                       Str(k) \in DOMAIN schema.Properties}}
          [] OTHER -> {}

(***************************************************************************)
(* jsonTagValue, part_001:644-667 (and :245-268).                          *)
(***************************************************************************)
\* The decoded value, when ensureType has nothing against it.
ensured(tagValue, errs) == IF errs # {} THEN Panic(errs) ELSE Ok(tagValue)

\* part_001:660-666: parsed is what json.Unmarshal made of value.
decoded(fieldName, schema, value, parsed) ==
    IF ~parsed.ok
    THEN Panic({InvalidValue(schema.Type, Str(value), fieldName,
                             "encoding/json")})
    ELSE ensured(parsed.v,
                 ensureType(fieldName, schema, Str(value), parsed.v))

\* A faulty special case that keeps the white space around the pieces.
trimmed_Raw(parts) == JStrs(parts)

\* part_001:652-657: parts are the pieces of value between its commas.
trimmed(parts) == JStrs([i \in 1..Len(parts) |-> TrimSpace(parts[i])])

jsonTagValue(fieldName, schema, value) ==
    IF schema.Type = typeString THEN Ok(JStr(value))
    ELSE IF /\ schema.Type = typeArray
            /\ schema.Items # <<>>
            /\ schema.Items[1].Type = typeString
            /\ value = <<>>
    THEN Panic({RuntimeError(
             "runtime error: index out of range [0] with length 0", "")})
    ELSE IF /\ schema.Type = typeArray
            /\ schema.Items # <<>>
            /\ schema.Items[1].Type = typeString
            /\ value[1] # "["
    THEN Ok(trimmed(Split(value, cComma)))
    ELSE decoded(fieldName, schema, value, Unmarshal(value))

\* The values of the literals, or the panic of the first literal that has
\* one; rs are the outcomes of jsonTagValue in the order of the literals.
enumOf(rs) ==
    IF FirstFailure(rs).st # "ok" THEN FirstFailure(rs)
    ELSE Ok([i \in 1..Len(rs) |-> rs[i].x])

enumParts(fieldName, schema, parts) ==
    enumOf([i \in 1..Len(parts) |-> jsonTagValue(fieldName, schema, parts[i])])

\* The loop of part_001:573-577 (and :208-212) over the literals of an enum
\* tag.
enumValues(fieldName, schema, enum) ==
    enumParts(fieldName, schema, Split(enum, cComma))

(***************************************************************************)
(* The maps-and-bounds revision: schemaFor, part_001:401-516, and          *)
(* schemaForField, part_001:551-598.  depth counts the calls of schemaFor  *)
(* on the stack.                                                           *)
(***************************************************************************)
\* A faulty format that takes int and uint for 64 bits wide on every build.
IntFormat_Always64 == "int64"

\* The format of int and uint, part_001:426-429 and :436-439.
IntFormat == IF bits = 32 THEN "int32" ELSE "int64"

minZero == Norm(0, 0)

RECURSIVE schemaFor(_, _)
RECURSIVE schemaForField(_, _)
RECURSIVE structFields(_, _, _, _, _)

\* part_001:492-495 (and :218-221): whether the field is required.
fieldRequired(field) ==
    IF TagHas(field.Tag, "required")
    THEN boolTag(field, "required")
    ELSE Ok(~Contains(TagGet(field.Tag, "json"), cOmitempty))

\* A faulty loop that does not record the name of a field it has added.
addField_Forgetful(fields, fieldSet, props, required, depth, name, req, fs) ==
    IF fs.st # "ok" THEN fs
    ELSE structFields(Tail(fields), fieldSet, (name :> fs.x) @@ props,
                      IF req THEN Append(required, name) ELSE required,
                      depth)

\* part_001:497-502: fs is what schemaForField came to for the first of
\* fields.
addField(fields, fieldSet, props, required, depth, name, req, fs) ==
    IF fs.st # "ok" THEN fs
    ELSE structFields(Tail(fields), fieldSet \cup {Head(fields).Name},
                      (name :> fs.x) @@ props,
                      IF req THEN Append(required, name) ELSE required,
                      depth)

\* part_001:489-497: req is what the reading of the required tag came to.
requiredField(fields, fieldSet, props, required, depth, name, req) ==
    IF req.st # "ok" THEN req
    ELSE addField(fields, fieldSet, props, required, depth, name, req.x,
                  schemaForField(Head(fields), depth))

\* part_001:481-487: n is the json tag up to its first comma.
namedField(fields, fieldSet, props, required, depth, n) ==
    IF n = cDash
    THEN structFields(Tail(fields), fieldSet \cup {Head(fields).Name}, props,
                      required, depth)
    ELSE requiredField(fields, fieldSet, props, required, depth,
                       IF n # <<>> THEN Str(n) ELSE Head(fields).Name,
                       fieldRequired(Head(fields)))

\* The loop of part_001:474-503 over the fields still to visit.
structFields(fields, fieldSet, props, required, depth) ==
    IF fields = <<>>
    THEN Ok([props |-> props, required |-> required])
    ELSE IF Head(fields).Name \in fieldSet
    THEN structFields(Tail(fields), fieldSet, props, required, depth)
    ELSE namedField(fields, fieldSet, props, required, depth,
                    Cut(TagGet(Head(fields).Tag, "json"), cComma).before)

\* part_001:513: addl is what the reading of additionalProperties came to.
objectSchema(body, addl) ==
    IF addl.st # "ok" THEN addl
    ELSE Ok([ZeroSchema EXCEPT !.Type = typeObject,
                               !.Properties = body.props,
                               !.Required = body.required,
                               !.AdditionalProperties = APBool(addl.x)])

\* part_001:505-511: f is what typ.FieldByName("_") found.
additionalProps(f) ==
    IF f.ok /\ TagHas(f.field.Tag, "additionalProperties")
    THEN boolTag(f.field, "additionalProperties")
    ELSE Ok(FALSE)

\* part_001:505-513: body is what the loop over the fields came to.
propsSchema(typ, body) ==
    IF body.st # "ok" THEN body
    ELSE objectSchema(body.x, additionalProps(FieldByName(typ, "_")))

\* part_001:470-513: flds is what getFields came to.
fieldsSchema(typ, depth, flds) ==
    IF flds.st # "ok" THEN Panic(flds.errs)
    ELSE propsSchema(typ, structFields(flds.fields, {}, EmptyMap, <<>>, depth))

\* part_001:453-466: elem is what schemaFor came to for the element type.
arraySchema(rt, elem) ==
    IF elem.st # "ok" THEN elem
    ELSE IF rt.Kind = "array"
    THEN Ok([ZeroSchema EXCEPT !.Type = typeArray,
                               !.Items = <<elem.x>>,
                               !.MaxItems = <<rt.Len>>,
                               !.MinItems = <<rt.Len>>])
    ELSE Ok([ZeroSchema EXCEPT !.Type = typeArray, !.Items = <<elem.x>>])

\* part_001:467-468
mapSchema(elem) ==
    IF elem.st # "ok" THEN elem
    ELSE Ok([ZeroSchema EXCEPT !.Type = typeObject,
                               !.AdditionalProperties = APSchema(elem.x)])

\* A faulty default case that panics as the $defs-producing revision does.
defaultSchema_Panics(typ) == Panic({UnsupportedType(typ)})

\* The default case of the switch, part_001:513-514: the schema {} for a
\* type of any other kind.
defaultSchema(typ) == Ok(ZeroSchema)

\* The switch on typ.Kind() of part_001:422-515; rt is the type.
kindSchema(typ, rt, depth) ==
    CASE rt.Kind = "bool" -> Ok([ZeroSchema EXCEPT !.Type = typeBoolean])
      [] rt.Kind = "int" ->
           Ok([ZeroSchema EXCEPT !.Type = typeInteger, !.Format = IntFormat])
      [] rt.Kind \in {"int8", "int16", "int32"} ->
           Ok([ZeroSchema EXCEPT !.Type = typeInteger, !.Format = "int32"])
      [] rt.Kind = "int64" ->
           Ok([ZeroSchema EXCEPT !.Type = typeInteger, !.Format = "int64"])
      [] rt.Kind = "uint" ->
           Ok([ZeroSchema EXCEPT !.Type = typeInteger, !.Format = IntFormat,
                                 !.Minimum = <<minZero>>])
      [] rt.Kind \in {"uint8", "uint16", "uint32"} ->
           Ok([ZeroSchema EXCEPT !.Type = typeInteger, !.Format = "int32",
                                 !.Minimum = <<minZero>>])
      [] rt.Kind = "uint64" ->
           Ok([ZeroSchema EXCEPT !.Type = typeInteger, !.Format = "int64",
                                 !.Minimum = <<minZero>>])
      [] rt.Kind = "float32" ->
           Ok([ZeroSchema EXCEPT !.Type = typeNumber, !.Format = "float"])
      [] rt.Kind = "float64" ->
           Ok([ZeroSchema EXCEPT !.Type = typeNumber, !.Format = "double"])
      [] rt.Kind = "string" -> Ok([ZeroSchema EXCEPT !.Type = typeString])
      [] rt.Kind \in {"slice", "array"} ->
           IF TypeOf(rt.Elem).Kind = "uint8"
           THEN Ok([ZeroSchema EXCEPT !.Type = typeString,
                                      !.ContentEncoding = "base64"])
           ELSE arraySchema(rt, schemaFor(rt.Elem, depth + 1))
      [] rt.Kind = "map" -> mapSchema(schemaFor(rt.Elem, depth + 1))
      [] rt.Kind = "struct" -> fieldsSchema(typ, depth, getFields(typ, {}))
      [] OTHER -> defaultSchema(typ)

\* part_001:406-516 on the type typ that is no pointer.
schemaOf(typ, depth) ==
    CASE typ = "time.Time" ->
           Ok([ZeroSchema EXCEPT !.Type = typeString, !.Format = "date-time"])
      [] typ = "url.URL" ->
           Ok([ZeroSchema EXCEPT !.Type = typeString, !.Format = "uri"])
      [] typ \in {"net.IP", "netip.Addr"} ->
           Ok([ZeroSchema EXCEPT !.Type = typeString, !.Format = "ipv4"])
      [] typ = "json.RawMessage" -> Ok(ZeroSchema)
      [] OTHER -> kindSchema(typ, TypeOf(typ), depth)

schemaFor(typ0, depth) ==
    IF depth > MaxDepth THEN Overflow ELSE schemaOf(Deref(typ0), depth)

\* The tags of part_001:580-584 and of :586-595, in the order of the source.
floatBounds ==
    <<"multipleOf", "maximum", "exclusiveMaximum", "minimum",
      "exclusiveMinimum">>

intBounds ==
    <<"minLength", "maxLength", "minItems", "maxItems", "minProperties",
      "maxProperties">>

floatTags(field, keys) == [i \in 1..Len(keys) |-> floatTag(field, keys[i])]

intTags(field, keys) == [i \in 1..Len(keys) |-> intTag(field, keys[i])]

\* part_001:580-597: fl, in and uniqueItems are what the readings of the tags
\* came to, bad the first of them, in the order of the source, that panicked.
withBounds(field, s, fl, in, uniqueItems, bad) ==
    IF bad.st # "ok" THEN bad
    ELSE Ok([s EXCEPT
               !.MultipleOf = fl[1].x, !.Maximum = fl[2].x,
               !.ExclusiveMaximum = fl[3].x,
               !.Minimum = fl[4].x,
               !.ExclusiveMinimum = fl[5].x,
               !.MinLength = in[1].x, !.MaxLength = in[2].x,
               !.Pattern = Str(TagGet(field.Tag, "pattern")),
               !.MinItems = in[3].x, !.MaxItems = in[4].x,
               !.UniqueItems = uniqueItems.x,
               !.MinProperties = in[5].x,
               !.MaxProperties = in[6].x])

boundsOf(field, s, fl, in, uniqueItems) ==
    withBounds(field, s, fl, in, uniqueItems,
               FirstFailure(fl \o SubSeq(in, 1, 4) \o <<uniqueItems>>
                            \o SubSeq(in, 5, 6)))

fieldBounds(field, s) ==
    boundsOf(field, s, floatTags(field, floatBounds),
             intTags(field, intBounds), boolTag(field, "uniqueItems"))

\* part_001:568-577 (and :203-213): the values of the enum tag, read against
\* the schema, or against its items when it is an array.
enumOn(field, s, enum) ==
    IF enum = <<>> THEN Ok(<<>>)
    ELSE enumValues(field.Name,
                    IF s.Type = typeArray THEN s.Items[1] ELSE s, enum)

\* A faulty assignment that leaves the values on the array schema.
withEnum_OnArray(s, enum, vals) ==
    IF enum = <<>> THEN s ELSE [s EXCEPT !.Enum = vals]

\* schema.Enum = enumValues, part_001:577 (and :212)
withEnum(s, enum, vals) ==
    IF enum = <<>> THEN s
    ELSE IF s.Type = typeArray
    THEN [s EXCEPT !.Items = <<[s.Items[1] EXCEPT !.Enum = vals]>>]
    ELSE [s EXCEPT !.Enum = vals]

enumSet(field, s, enum, vals) ==
    IF vals.st # "ok" THEN [vals EXCEPT !.x = <<>>]
    ELSE fieldBounds(field, withEnum(s, enum, vals.x))

enumerated(field, s, enum) == enumSet(field, s, enum, enumOn(field, s, enum))

\* part_001:562-566: ex is what jsonTagValue came to for the example tag.
exampleSet(field, s, ex) ==
    IF ex.st # "ok" THEN [ex EXCEPT !.x = <<>>]
    ELSE enumerated(field,
                    IF ex.x.k # "null" THEN [s EXCEPT !.Examples = <<ex.x>>]
                    ELSE s,
                    TagGet(field.Tag, "enum"))

exampleOf(field, s, value) ==
    IF value # <<>> THEN jsonTagValue(field.Name, s, value) ELSE Ok(JNull)

exampled(field, s) ==
    exampleSet(field, s, exampleOf(field, s, TagGet(field.Tag, "example")))

\* part_001:553-561
withDocs(s, doc, fmt, enc) ==
    [s EXCEPT !.Description = IF doc # <<>> THEN Str(doc) ELSE @,
              !.Format = IF fmt # <<>> THEN Str(fmt) ELSE @,
              !.ContentEncoding = IF enc # <<>> THEN Str(enc) ELSE @]

\* part_001:552-597: base is what schemaFor came to for the field's type.
fieldSchemaOf(field, base) ==
    IF base.st # "ok" THEN base
    ELSE exampled(field, withDocs(base.x, TagGet(field.Tag, "description"),
                                  TagGet(field.Tag, "format"),
                                  TagGet(field.Tag, "encoding")))

schemaForField(field, depth) ==
    fieldSchemaOf(field, schemaFor(field.Type, depth + 1))

(***************************************************************************)
(* What a call of For can come to: a schema with a nil error, an error     *)
(* with no schema, or the death of the process when the stack is           *)
(* exhausted (which recover() does not see).  schema is <<>> for a nil     *)
(* pointer or where nothing is returned, <<s>> for a schema s.             *)
(***************************************************************************)
Returned(s) == [status |-> "ok", schema |-> <<s>>, err |-> NoErr]

Failed(s, e) == [status |-> "error", schema |-> s, err |-> e]

Crashed == [status |-> "crash", schema |-> <<>>, err |-> NoErr]

\* A faulty For that hands out a schema together with the error.
partialOutcomes(r) ==
    CASE r.st = "ok" -> {Returned(r.x)}
      [] r.st = "panic" -> {Failed(<<ZeroSchema>>, e) : e \in r.errs}
      [] r.st = "overflow" -> {Crashed}

For_PartialOnError(T) == partialOutcomes(schemaFor(T, 0))

\* What For makes of what schemaFor came to: the schema, or the error that
\* recover() found, part_001:390-398.
outcomes(r) ==
    CASE r.st = "ok" -> {Returned(r.x)}
      [] r.st = "panic" -> {Failed(<<>>, e) : e \in r.errs}
      [] r.st = "overflow" -> {Crashed}

\* For[T] of the maps-and-bounds revision, part_001:388-399: the outcomes it
\* can have.
For(T) == outcomes(schemaFor(T, 0))

(***************************************************************************)
(* The $defs-producing revision: schemaFor, part_001:83-160, and           *)
(* fieldTags, part_001:195-227.  definitions is the map the calls share;   *)
(* a call's outcome carries it as defs.                                    *)
(***************************************************************************)
\* make(map[string]*Schema), part_001:70.  entries is the map; walked lists,
\* in the order of the walk, the named records whose fields schemaFor went
\* through (part_001:121-154).
NoDefinitions == [entries |-> EmptyMap, walked |-> <<>>]

WithDefs(r, definitions) ==
    [st |-> r.st, x |-> r.x, errs |-> r.errs, defs |-> definitions]

\* The deferred function of part_001:88-95.
refToNamed(def, typ, definitions) ==
    IF /\ def.Type = typeObject
       /\ TypeOf(typ).Name # ""
       /\ typ \in DOMAIN definitions.entries
       /\ definitions.entries[typ].Ref = ""
    THEN [ZeroSchema EXCEPT !.Ref = "#/$defs/" \o typ]
    ELSE def

\* part_001:214-226: req is what fieldRequired came to.
nullable(s, req) ==
    IF req.st # "ok" THEN req
    ELSE IF ~req.x
    THEN Ok([s EXCEPT !.Type = <<IF s.Type = <<>> THEN "<nil>"
                                 ELSE s.Type[1], "null">>])
    ELSE Ok(s)

tagged(field, s) ==
    IF s.Ref # "" THEN Ok(s) ELSE nullable(s, fieldRequired(field))

\* part_001:202-213: vals is what the reading of the enum tag came to.
enumSetD(field, s, enum, vals) ==
    IF vals.st # "ok" THEN vals
    ELSE tagged(field, withEnum(s, enum, vals.x))

enumeratedD(field, s, enum) ==
    enumSetD(field, s, enum, enumOn(field, s, enum))

\* part_001:196-201
withDocsD(s, doc, enc) ==
    [s EXCEPT !.Description = IF doc # <<>> THEN Str(doc) ELSE @,
              !.ContentEncoding = IF enc # <<>> THEN Str(enc) ELSE @]

fieldTags(field, fieldSchema) ==
    enumeratedD(field,
                withDocsD(fieldSchema, TagGet(field.Tag, "description"),
                          TagGet(field.Tag, "encoding")),
                TagGet(field.Tag, "enum"))

\* A faulty lookup that asks for the type by its Name(), while the entries
\* are kept by its String(): it never finds one.
registered_ByName(typ, definitions) ==
    TypeOf(typ).Name \in DOMAIN definitions.entries

\* A faulty lookup that finds only the entry of the first record walked.
registered_FirstOnly(typ, definitions) ==
    /\ typ \in DOMAIN definitions.entries
    /\ definitions.entries[typ].Ref = "#"

\* The lookup of part_001:96, its second result.
registered(typ, definitions) == typ \in DOMAIN definitions.entries

RECURSIVE schemaForD(_, _, _)
RECURSIVE structFieldsD(_, _, _, _, _, _)

\* part_001:151-152: next is the record's schema with the field in it.  Where
\* definitions[typ] is the pointer &schema, the entry changes with schema.
nextD(fields, fieldSet, next, defs, typ, depth) ==
    structFieldsD(Tail(fields), fieldSet \cup {Head(fields).Name}, next,
                  IF typ \in DOMAIN defs.entries /\ defs.entries[typ].Ref # "#"
                  THEN [defs EXCEPT !.entries = (typ :> next) @@ @]
                  ELSE defs,
                  typ, depth)

\* part_001:150-152: ft is what fieldTags made of the field's schema.
taggedD(fields, fieldSet, schema, typ, depth, name, defs, ft) ==
    IF ft.st # "ok" THEN WithDefs(ft, defs)
    ELSE nextD(fields, fieldSet,
               [schema EXCEPT !.Properties = (name :> ft.x) @@ @,
                              !.Required = Append(@, name)],
               defs, typ, depth)

\* part_001:149-150: fs is what schemaFor came to for the field's type.
fieldD(fields, fieldSet, schema, typ, depth, name, fs) ==
    IF fs.st # "ok" THEN fs
    ELSE taggedD(fields, fieldSet, schema, typ, depth, name, fs.defs,
                 fieldTags(Head(fields), fs.x))

\* part_001:141-149: n is the json tag up to its first comma.
namedFieldD(fields, fieldSet, schema, definitions, typ, depth, n) ==
    IF n = cDash
    THEN structFieldsD(Tail(fields), fieldSet \cup {Head(fields).Name},
                       schema, definitions, typ, depth)
    ELSE fieldD(fields, fieldSet, schema, typ, depth,
                IF n # <<>> THEN Str(n) ELSE Head(fields).Name,
                schemaForD(Head(fields).Type, definitions, depth + 1))

\* The loop of part_001:135-154 over the fields still to visit.  typ is the
\* record.
structFieldsD(fields, fieldSet, schema, definitions, typ, depth) ==
    IF fields = <<>>
    THEN WithDefs(Ok(schema), definitions)
    ELSE IF Head(fields).Name \in fieldSet
    THEN structFieldsD(Tail(fields), fieldSet, schema, definitions, typ, depth)
    ELSE namedFieldD(fields, fieldSet, schema, definitions, typ, depth,
                     Cut(TagGet(Head(fields).Tag, "json"), cComma).before)

\* part_001:122-124
emptyObject ==
    [ZeroSchema EXCEPT !.Type = typeObject,
                       !.AdditionalProperties = APBool(FALSE)]

\* part_001:125-132: the definitions with the record typ among them.
define(typ, rt, definitions) ==
    IF rt.Name = "" THEN definitions
    ELSE [entries |-> IF DOMAIN definitions.entries = {}
                      THEN typ :> [ZeroSchema EXCEPT !.Ref = "#"]
                      ELSE (typ :> emptyObject) @@ definitions.entries,
          walked  |-> Append(definitions.walked, typ)]

\* The return of a record, part_001:159 and :88-95.
objectD(typ, body) ==
    IF body.st # "ok" THEN body
    ELSE WithDefs(Ok(refToNamed(body.x, typ, body.defs)), body.defs)

\* part_001:134-154: flds is what getFields came to.
fieldsD(typ, defs, depth, flds) ==
    IF flds.st # "ok" THEN WithDefs(Panic(flds.errs), defs)
    ELSE objectD(typ, structFieldsD(flds.fields, {}, emptyObject, defs, typ,
                                    depth))

\* part_001:116-119: elem is what schemaFor came to for the element type.
arrayD(elem) ==
    IF elem.st # "ok" THEN elem
    ELSE WithDefs(Ok([ZeroSchema EXCEPT !.Type = typeArray,
                                        !.Items = <<elem.x>>]), elem.defs)

\* The switch on typ.Kind() of part_001:101-157; rt is the type.
kindSchemaD(typ, rt, definitions, depth) ==
    CASE rt.Kind = "bool" ->
           WithDefs(Ok([ZeroSchema EXCEPT !.Type = typeBoolean]), definitions)
      [] rt.Kind \in {"int", "int8", "int16", "int32", "int64", "uint",
                      "uint8", "uint16", "uint32", "uint64"} ->
           WithDefs(Ok([ZeroSchema EXCEPT !.Type = typeInteger]), definitions)
      [] rt.Kind \in {"float32", "float64"} ->
           WithDefs(Ok([ZeroSchema EXCEPT !.Type = typeNumber]), definitions)
      [] rt.Kind = "string" ->
           WithDefs(Ok([ZeroSchema EXCEPT !.Type = typeString]), definitions)
      [] rt.Kind \in {"slice", "array"} ->
           IF TypeOf(rt.Elem).Kind = "uint8"
           THEN WithDefs(Ok([ZeroSchema EXCEPT !.Type = typeString,
                                !.ContentEncoding = "base64"]), definitions)
           ELSE arrayD(schemaForD(rt.Elem, definitions, depth + 1))
      [] rt.Kind = "struct" ->
           fieldsD(typ, define(typ, rt, definitions), depth,
                   getFields(typ, {}))
      [] OTHER -> WithDefs(Panic({UnsupportedType(typ)}), definitions)

\* part_001:88-159 on the type typ that is no pointer.
schemaOfD(typ, definitions, depth) ==
    IF registered(typ, definitions)
    THEN WithDefs(Ok(refToNamed(definitions.entries[typ], typ, definitions)),
                  definitions)
    ELSE kindSchemaD(typ, TypeOf(typ), definitions, depth)

schemaForD(typ0, definitions, depth) ==
    IF depth > MaxDepth THEN WithDefs(Overflow, definitions)
    ELSE schemaOfD(Deref(typ0), definitions, depth)

\* part_001:75-78: the schema with the definitions that are left.
withDefinitions(s, definitions) ==
    IF DOMAIN definitions # {} THEN [s EXCEPT !.Definitions = definitions]
    ELSE s

\* What For makes of what schemaFor came to, part_001:60-79.  On an error the
\* result is the zero Schema.
outcomesD(T, r) ==
    CASE r.st = "ok" ->
           {Returned(withDefinitions(r.x,
                                     [t \in DOMAIN r.defs.entries \ {T} |->
                                         r.defs.entries[t]]))}
      [] r.st = "panic" -> {Failed(<<ZeroSchema>>, e) : e \in r.errs}
      [] r.st = "overflow" -> {Crashed}

\* A faulty For that keeps one map for all its calls: a call finds in it what
\* the call before left there.
makeDefinitions_Kept ==
    IF first.status = "ok"
    THEN [entries |-> first.schema[1].Definitions,
          walked  |-> NoDefinitions.walked]
    ELSE NoDefinitions

\* part_001:70: every call of For makes the map its walk registers the named
\* records in.  The map lives on as the $defs of the document the call
\* returns (part_001:75-77).
makeDefinitions == NoDefinitions

\* For[T] of the $defs-producing revision, part_001:58-80: the outcomes it
\* can have.
ForD(T) == outcomesD(T, schemaForD(T, makeDefinitions, 0))

(***************************************************************************)
(* The inputs.  A derivation is given its type argument at compile time:   *)
(* any type of the universe, or the record struct{V} with the field type   *)
(* and struct tag of one of the probes below.                              *)
(***************************************************************************)
\* json tags and required tags of a field (<<>> stands for no tag at all,
\* <<<<>>>> for the tag with the empty value).
JsonTags ==
    {<<>>, <<<<"v">>>>, <<<<"v", ",", "o", "m", "i", "t", "e", "m", "p", "t", "y">>>>, <<<<",", "o", "m", "i", "t", "e", "m", "p", "t", "y">>>>, <<<<"o", "m", "i", "t", "e", "m", "p", "t", "y">>>>,
     <<<<"o", "m", "i", "t", "e", "m", "p", "t", "y", ",", "s", "t", "r", "i", "n", "g">>>>, <<<<"v", ",", "s", "t", "r", "i", "n", "g">>>>, <<<<"-">>>>, <<<<"-", ",">>>>}

RequiredTags == {<<>>, <<cTrue>>, <<cFalse>>, <<<<>>>>, <<<<"b", "a", "d">>>>}

TagOf(key, opt) == IF opt = <<>> THEN NoTag ELSE key :> opt[1]

RequiredProbes ==
    {[typ |-> "string", tag |-> TagOf("json", j) @@ TagOf("required", r)] :
        j \in JsonTags, r \in RequiredTags}

\* Literals for the example and enum tags, by the type of the field.
IntLiterals ==
    {<<"1">>, <<"0">>, <<"-", "3">>, <<"1", ".", "0">>, <<"1", "e", "2">>, <<"1", "E", "2">>, <<"1", "2", ".", "5", "0">>, <<"1", ".", "5">>, <<"1", "e", "-", "1">>,
     <<"1", "e", "1", "9">>, <<"3", "e", "9">>, <<"-", "3", "e", "9">>, <<"1", "e", "4", "0", "0">>, <<"1", "e", "-", "4", "0", "0">>, <<"t", "r", "u", "e">>, <<"n", "u", "l", "l">>, <<"\"", "1", "\"">>, <<" ", "1">>,
     <<"1", " ">>, <<"0", "1">>, <<"+", "1">>, <<".", "5">>, <<"1", ".">>, <<"x">>, <<"[", "1", "]">>, <<"{", "}">>, <<"1", ",", "2">>, <<"1", ",", "2", ".", "5">>, <<"1", ",", ",", "2">>,
     <<"1", ".", "5", ",", "x">>, <<"7", ",", "t", "r", "u", "e">>, <<"-", "0">>, <<"1", "e">>, <<"\f", "1">>}

LiteralsOf ==
       "int"     :> IntLiterals
    @@ "uint64"  :> IntLiterals
    @@ "bool"    :> {<<"t", "r", "u", "e">>, <<"1">>, <<"\"", "x", "\"">>}
    @@ "float64" :> {<<"1", ".", "5">>, <<"2">>, <<"x">>, <<"1", "e", "4", "0", "0">>, <<"\"", "1", "\"">>,
                     <<"-", "0", ".", "0">>, <<"-", "1", "e", "-", "4", "0", "0">>}
    @@ "string"  :> {<<"a", ",", "b">>, <<"1">>, <<" ", "a", ",", ",", "b", " ">>}
    @@ "[]int"   :> {<<"[", "1", ",", "2", "]">>, <<"[", "1", ",", "t", "r", "u", "e", ",", "\"", "x", "\"", "]">>, <<"[", "1", ".", "5", "]">>, <<"1", ",", "2">>, <<"{", "}">>, <<"[", "[", "1", "]", "]">>,
                     <<"[", "1", ",", "2", ",", "3", ".", "5", ",", "f", "a", "l", "s", "e", "]">>, <<"[", "]">>,
                     <<"[", "\"", "\\", "f", "\"", "]">>, <<"[", "\"", "\\", "b", "\"", "]">>}
    @@ "[][]int" :> {<<"[", "[", "1", ",", "2", "]", ",", "[", "3", ",", "t", "r", "u", "e", "]", "]">>, <<"[", "[", "1", "]", ",", "[", "2", ",", "f", "a", "l", "s", "e", ",", "\"", "a", "\"", "]", ",", "[", "t", "r", "u", "e", "]", "]">>, <<"[", "1", "]">>,
                     <<"[", "[", "1", "]", ",", "[", "2", "]", "]">>,
                     <<"[", "t", "r", "u", "e", "]">>, <<"[", "]", ",", "[", "t", "r", "u", "e", "]">>, <<"[", "[", "1", "]", ",", "-", "0", "]">>}
    @@ "[]string"   :> {<<"a", ",", " ", "b">>, <<"[", "\"", "a", "\"", "]">>, <<"[", "1", "]">>, <<"[", "\"", "a", "\"", ",", "2", ",", "3", "]">>,
                     <<"[", "x">>, <<" ", "[", "\"", "a", "\"", "]">>, <<"[", "-", "0", "]">>, <<"[", "3", "e", "-", "3", "2", "4", "]">>, <<" ", "a", " ", ",", ",", "b", " ">>, <<"[", "\"", "a", "\"", ",", " ", "\"", "b", "\"", "]">>,
                     <<"a", ",", "\f", "b">>, <<Rune(160), "a", ",", "b", Rune(11)>>,
                     <<"[", "\"", "\\", "u", "0", "0", "4", "1", "\\", "b", "\"", "]">>, <<"[", "\"", "\f", "\"", "]">>,
                     <<"[", "\"", "\\", "u", "0", "0", "4", "\"", "]">>,
                     <<"[", "{", "\"", "k", "\"", ":", "\"", "\\", "f", "\"", "}", "]">>}
    @@ "[][]string" :> {<<"[", "[", "\"", "a", "\"", "]", "]">>, <<"[", "[", "\"", "a", "\"", ",", "1", "]", "]">>, <<"a", ",", ",", "b">>, <<"[", "[", "\"", "a", "\"", "]", ",", "\"", "b", "\"", "]">>, <<"[", "1", "]">>,
                     <<"\f", "a", ",", "b", Rune(160)>>, <<"[", "\"", "\\", "u", "0", "0", "4", "1", "\"", "]">>, <<"[", "\"", "\\", "b", "\"", "]", ",", "c", Rune(133)>>}
    @@ "struct{Foo;Bar}" :>
         {<<"{", "\"", "f", "o", "o", "\"", ":", "\"", "x", "\"", ",", "\"", "b", "a", "r", "\"", ":", "1", "}">>, <<"{", "\"", "f", "o", "o", "\"", ":", "t", "r", "u", "e", "}">>, <<"{", "\"", "f", "o", "o", "\"", ":", "1", ",", "\"", "b", "a", "r", "\"", ":", "\"", "x", "\"", "}">>,
          <<"t", "r", "u", "e">>, <<"{", "\"", "b", "a", "r", "\"", ":", "1", ".", "5", "}">>, <<"{", "\"", "b", "a", "z", "\"", ":", "1", "}">>, <<"{", "\"", "f", "o", "o", "\"", ":", "n", "u", "l", "l", "}">>, <<"[", "]">>,
          <<"{", "\"", "f", "o", "o", "\"", ":", "-", "0", "}">>, <<"{", "\"", "f", "o", "o", "\"", ":", "2", ".", "3", "e", "-", "3", "2", "3", "}">>,
          <<"{", "\"", "b", "a", "r", "\"", ":", "\"", "\\", "b", "\"", "}">>, <<"{", "\"", "f", "o", "o", "\"", ":", "{", "\"", "\\", "b", "\"", ":", "1", "}", "}">>}
    @@ "[]struct{Foo;Bar}" :>
         {<<"[", "{", "\"", "f", "o", "o", "\"", ":", "\"", "a", "\"", "}", ",", "{", "\"", "b", "a", "r", "\"", ":", "\"", "b", "\"", "}", "]">>, <<"[", "{", "\"", "f", "o", "o", "\"", ":", "\"", "a", "\"", "}", ",", "{", "\"", "f", "o", "o", "\"", ":", "[", "1", "]", "}", "]">>, <<"[", "1", "]">>,
          <<"{", "\"", "f", "o", "o", "\"", ":", "{", "\"", "x", "\"", ":", "1", "}", "}">>}
    @@ "map[string][]int" :> {<<"{", "\"", "a", "\"", ":", "[", "t", "r", "u", "e", "]", "}">>, <<"1">>}
    @@ "json.RawMessage"  :> {<<"n", "u", "l", "l">>, <<"{", "}">>}
    @@ "schema_test.RecursiveChildKey" :> {<<"1">>, <<"{", "\"", "k", "e", "y", "\"", ":", "1", "}">>}

LiteralProbes ==
    UNION {{[typ |-> t, tag |-> k :> lit] :
               k \in {"example", "enum"}, lit \in LiteralsOf[t]} :
           t \in DOMAIN LiteralsOf}

\* Constraint tags, well and ill formed.
BoundProbes ==
    {[typ |-> "string", tag |-> "minLength" :> <<"3">> @@ "maxLength" :> <<"1", "0">>
                                 @@ "pattern" :> <<"^", "a">>],
     [typ |-> "string", tag |-> "minLength" :> <<"x">>],
     [typ |-> "string", tag |-> "maxLength" :> <<"1", ".", "5">>],
     [typ |-> "float64", tag |-> "minimum" :> <<"1", ".", "5">> @@ "maximum" :> <<"+", "2", "e", "1">>
                                  @@ "multipleOf" :> <<".", "5">>],
     [typ |-> "float64", tag |-> "exclusiveMinimum" :> <<"0">>
                                  @@ "exclusiveMaximum" :> <<"1", "e", "4", "0", "0">>],
     [typ |-> "float64", tag |-> "maximum" :> <<"a", "b", "c">>],
     [typ |-> "uint", tag |-> "format" :> <<"i", "n", "t", "8">> @@ "description" :> <<"a", " ", "b", "y", "t", "e">>],
     [typ |-> "[2]int", tag |-> "uniqueItems" :> cTrue],
     [typ |-> "[]int", tag |-> "minItems" :> <<"1">> @@ "maxItems" :> <<"-", "2">>
                                @@ "uniqueItems" :> <<"m", "a", "y", "b", "e">>],
     [typ |-> "map[string]string", tag |-> "minProperties" :> <<"1">>
                                @@ "maxProperties" :> <<"t", "w", "o">>],
     [typ |-> "string", tag |-> "minLength" :> <<>>],
     [typ |-> "float64", tag |-> "maximum" :> <<>>],
     [typ |-> "[]int", tag |-> "uniqueItems" :> <<>>],
     [typ |-> "string", tag |-> "maxLength" :> <<"+", "7">>],
     [typ |-> "string", tag |-> "minLength" :> <<"1", "e", "2">>],
     [typ |-> "string", tag |-> "maxLength" :> <<"9", "9", "9", "9", "9", "9", "9", "9", "9", "9">>],
     [typ |-> "float64", tag |-> "maximum" :> <<"+", "I", "n", "f">> @@ "minimum" :> <<"n", "a", "n">>],
     [typ |-> "float64", tag |-> "exclusiveMaximum" :> <<"0", "x", "1", "p", "4">>
                                  @@ "multipleOf" :> <<"1", "_", "0">>],
     [typ |-> "chan int", tag |-> "json" :> <<"c">>],
     [typ |-> "[]uint8", tag |-> "encoding" :> <<"b", "a", "s", "e", "3", "2">>]}

Probes == RequiredProbes \cup LiteralProbes \cup BoundProbes

DefaultProbe == [typ |-> "string", tag |-> NoTag]

NotCalled == [status |-> "none", schema |-> <<>>, err |-> NoErr]

(***************************************************************************)
(* The HTTP client: src/internal/httpclient/stream.go.  A reply of the     *)
(* server is what http.Client.Do came to: a transport error, or a status   *)
(* code with a body; ending tells how the body ends after its last byte    *)
(* ("eof", or "reset" for a connection that breaks).                       *)
(***************************************************************************)
Reply(failed, code, text, ending) ==
    [failed |-> failed, StatusCode |-> code, Body |-> text, ending |-> ending]

NoReply == Reply(FALSE, 0, <<>>, "eof")

\* The errors the client returns.  wraps holds the prefixes fmt.Errorf put
\* before the error, the outermost first; is tells the dynamic type that
\* errors.As and errors.Is look for.
NilError == [is |-> "nil", Code |-> 0, Message |-> "", wraps |-> <<>>]

\* The *url.Error of http.Client.Do.
TransportError ==
    [is |-> "url.Error", Code |-> 0, Message |-> "", wraps |-> <<>>]

\* stream.go:272-275
StatusError(code, message) ==
    [is |-> "StatusError", Code |-> code, Message |-> message, wraps |-> <<>>]

\* The error a handler returns.
HandlerError ==
    [is |-> "handler", Code |-> 0, Message |-> "boom", wraps |-> <<>>]

\* What bufio.Reader.ReadBytes returns with the bytes read so far.
EOF == [is |-> "io.EOF", Code |-> 0, Message |-> "EOF", wraps |-> <<>>]

ResetError ==
    [is |-> "net.OpError", Code |-> 0, Message |-> "connection reset",
     wraps |-> <<>>]

\* net/http.StatusText
StatusTexts ==
    100 :> "Continue" @@ 101 :> "Switching Protocols" @@ 102 :> "Processing"
    @@ 103 :> "Early Hints" @@ 200 :> "OK" @@ 201 :> "Created"
    @@ 202 :> "Accepted" @@ 203 :> "Non-Authoritative Information"
    @@ 204 :> "No Content" @@ 205 :> "Reset Content"
    @@ 206 :> "Partial Content" @@ 207 :> "Multi-Status"
    @@ 208 :> "Already Reported" @@ 226 :> "IM Used"
    @@ 300 :> "Multiple Choices" @@ 301 :> "Moved Permanently"
    @@ 302 :> "Found" @@ 303 :> "See Other" @@ 304 :> "Not Modified"
    @@ 305 :> "Use Proxy" @@ 307 :> "Temporary Redirect"
    @@ 308 :> "Permanent Redirect" @@ 400 :> "Bad Request"
    @@ 401 :> "Unauthorized" @@ 402 :> "Payment Required"
    @@ 403 :> "Forbidden" @@ 404 :> "Not Found"
    @@ 405 :> "Method Not Allowed" @@ 406 :> "Not Acceptable"
    @@ 407 :> "Proxy Authentication Required" @@ 408 :> "Request Timeout"
    @@ 409 :> "Conflict" @@ 410 :> "Gone" @@ 411 :> "Length Required"
    @@ 412 :> "Precondition Failed" @@ 413 :> "Request Entity Too Large"
    @@ 414 :> "Request URI Too Long" @@ 415 :> "Unsupported Media Type"
    @@ 416 :> "Requested Range Not Satisfiable"
    @@ 417 :> "Expectation Failed" @@ 418 :> "I'm a teapot"
    @@ 421 :> "Misdirected Request" @@ 422 :> "Unprocessable Entity"
    @@ 423 :> "Locked" @@ 424 :> "Failed Dependency" @@ 425 :> "Too Early"
    @@ 426 :> "Upgrade Required" @@ 428 :> "Precondition Required"
    @@ 429 :> "Too Many Requests"
    @@ 431 :> "Request Header Fields Too Large"
    @@ 451 :> "Unavailable For Legal Reasons"
    @@ 500 :> "Internal Server Error" @@ 501 :> "Not Implemented"
    @@ 502 :> "Bad Gateway" @@ 503 :> "Service Unavailable"
    @@ 504 :> "Gateway Timeout" @@ 505 :> "HTTP Version Not Supported"
    @@ 506 :> "Variant Also Negotiates" @@ 507 :> "Insufficient Storage"
    @@ 508 :> "Loop Detected" @@ 510 :> "Not Extended"
    @@ 511 :> "Network Authentication Required"

StatusText(code) ==
    IF code \in DOMAIN StatusTexts THEN StatusTexts[code] ELSE ""

\* What a call of err.Error() leaves in err: (*StatusError).Error,
\* stream.go:277-283, fills an empty Message with the text of the status.
afterError(err) ==
    IF err.is = "StatusError" /\ err.Message = ""
    THEN [err EXCEPT !.Message = StatusText(err.Code)]
    ELSE err

\* fmt.Errorf(prefix + ": %w", err), which formats err by its Error method
Wrap(prefix, err) == [afterError(err) EXCEPT !.wraps = <<prefix>> \o @]

\* checkStatus, stream.go:285-292
checkStatus(reply) ==
    IF reply.StatusCode >= 200 /\ reply.StatusCode < 400 THEN NilError
    ELSE StatusError(reply.StatusCode, Str(reply.Body))

\* The request of Get, Post, Delete and Stream up to checkStatus
\* (stream.go:215-225, :50-60): the error it ends with.  The path and the
\* request built from constants cannot fail.
roundTrip(reply) == IF reply.failed THEN TransportError ELSE checkStatus(reply)

\* Delete, stream.go:200-228
Delete(reply) == roundTrip(reply)

\* Event, stream.go:18-21.  A nil Data is the empty sequence: append never
\* makes a slice that is empty and not nil out of nil.
Event(type, data) == [Type |-> type, Data |-> data]

NoEvent == Event("", <<>>)

\* bufio.Reader.ReadBytes('\n') on the unread bytes cs, given
\* i = bytes.IndexByte(cs, '\n') + 1.
ReadBytesAt(cs, ending, i) ==
    IF i = 0
    THEN [line |-> cs, rest |-> <<>>,
          err |-> IF ending = "eof" THEN EOF ELSE ResetError]
    ELSE [line |-> SubSeq(cs, 1, i), rest |-> SubSeq(cs, i + 1, Len(cs)),
          err |-> NilError]

ReadBytes(cs, ending) == ReadBytesAt(cs, ending, Index(cs, <<"\n">>))

\* bytes.TrimRight(cs, "\r\n")
RECURSIVE TrimRightCRLF(_)
TrimRightCRLF(cs) ==
    IF cs # <<>> /\ cs[Len(cs)] \in {"\r", "\n"}
    THEN TrimRightCRLF(SubSeq(cs, 1, Len(cs) - 1))
    ELSE cs

\* stream.go:101-105
appendData(data, value) ==
    (IF data # <<>> THEN data \o <<"\n">> ELSE data) \o value

\* stream.go:96-108: kv is what bytes.Cut made of the line.
withField(ev, kv) ==
    CASE Str(kv.before) = "event" ->
             [ev EXCEPT !.Type = Str(TrimSpace(kv.after))]
      [] Str(kv.before) = "data" ->
             [ev EXCEPT !.Data = appendData(@, TrimSpace(kv.after))]
      [] OTHER -> ev

\* eventReader.read, stream.go:82-110: the event, the error and the bytes
\* left unread, from the unread bytes cs and the event gathered so far.
RECURSIVE read(_, _, _)
\* stream.go:90-109: rawLine is the line read, trimmed.
afterLine(ev, rawLine, rest, ending) ==
    IF rawLine = <<>>
    THEN [event |-> ev, err |-> NilError, rest |-> rest]
    ELSE read(rest, ending, withField(ev, Cut(rawLine, <<":">>)))

\* stream.go:86-89: r is what ReadBytes returned.
afterRead(ev, r, ending) ==
    IF r.err # NilError
    THEN [event |-> ev, err |-> Wrap("read line", r.err), rest |-> r.rest]
    ELSE afterLine(ev, TrimSpace(TrimRightCRLF(r.line)), r.rest, ending)

read(cs, ending, ev) == afterRead(ev, ReadBytes(cs, ending), ending)

\* The HTTP client at rest, while the program derives schemas.
ClientIdle ==
    /\ resp = NoReply
    /\ unread = <<>>
    /\ event = NoEvent
    /\ delivered = <<>>
    /\ hpc = "off"
    /\ herr = NilError
    /\ asstID = ""
    /\ sent = <<>>

clientVars == <<resp, unread, event, delivered, hpc, herr, asstID, sent>>

\* Client.Run and Executor.Run at rest.
AgentIdle ==
    /\ stream = <<>>
    /\ incoming = <<>>
    /\ answer = ""
    /\ gpc = <<>>
    /\ used = <<>>
    /\ tools = "ok"
    /\ idLen = 0

agentVars == <<stream, incoming, answer, gpc, used, tools, idLen>>

(***************************************************************************)
(* The state machine: a program linked with one revision of the package    *)
(* calls For[T] once and then, independently, once more.                   *)
(***************************************************************************)
Init ==
    /\ rev \in {"defs", "mb"}
    /\ bits \in {32, 64}
    /\ \/ root \in DOMAIN FixedTypes /\ probe = DefaultProbe
       \/ root = ProbeRecord /\ probe \in Probes
    /\ pc = "init"
    /\ first = NotCalled
    /\ second = NotCalled
    /\ ClientIdle
    /\ AgentIdle

\* The caller keeps what a call came to: the first call's outcome in first,
\* the second's in second.  A crash ends the program.
Keep(o) ==
    \/ /\ pc = "init"
       /\ first' = o
       /\ pc' = IF o.status = "crash" THEN "crashed" ELSE "called"
       /\ UNCHANGED second
    \/ /\ pc = "called"
       /\ second' = o
       /\ pc' = IF o.status = "crash" THEN "crashed" ELSE "twice"
       /\ UNCHANGED first

\* A call of For[T] of the maps-and-bounds revision.
CallFor ==
    /\ rev = "mb"
    /\ pc \in {"init", "called"}
    /\ \E o \in For(root) : Keep(o)
    /\ UNCHANGED <<rev, bits, root, probe, clientVars, agentVars>>

\* A call of For[T] of the $defs-producing revision.
CallForD ==
    /\ rev = "defs"
    /\ pc \in {"init", "called"}
    /\ \E o \in ForD(root) : Keep(o)
    /\ UNCHANGED <<rev, bits, root, probe, clientVars, agentVars>>

Next == CallFor \/ CallForD

Spec == Init /\ [][Next]_vars

(***************************************************************************)
(* A program that calls httpclient.Stream once.  The handler is the        *)
(* caller's: every call of it is a step of its own, and it returns nil or  *)
(* an error as it likes.                                                   *)
(***************************************************************************)
MaxLines == 4

\* The lines a server writes: event and data fields, with and without the
\* space after the colon, with a no-break space and a form feed around the
\* value and with a carriage return, a comment, the empty line that ends an
\* event, and a line of a form feed alone.
Lines ==
    {<<"e", "v", "e", "n", "t", ":", Rune(160), "a", "\f">>, <<"d", "a", "t", "a", ":", " ", "x">>, <<"d", "a", "t", "a", ":", "y">> \o <<"\r">>, <<":", " ", "c">>, <<>>,
     <<"\f">>}

RECURSIVE Joined(_, _)
\* The lines ls, each ended by a line feed but for the last when the body
\* breaks off in the middle of it.
Joined(ls, whole) ==
    IF ls = <<>> THEN <<>>
    ELSE IF Len(ls) = 1 /\ ~whole THEN Head(ls)
    ELSE Head(ls) \o <<"\n">> \o Joined(Tail(ls), whole)

Bodies ==
    UNION {{Joined(ls, whole) : ls \in [1..n -> Lines], whole \in BOOLEAN} :
           n \in 0..MaxLines}

StreamReplies ==
    {Reply(TRUE, 0, <<>>, "eof")}
      \cup {Reply(FALSE, 200, b, e) : b \in Bodies, e \in {"eof", "reset"}}
      \cup {Reply(FALSE, c, m, "eof") :
               c \in {404, 500}, m \in {<<>>, <<"P", "a", "g", "e", " ", "N", "o", "t", " ", "F", "o", "u", "n", "d">>}}

\* The schema program at rest, while the HTTP client runs.
SchemaIdle ==
    /\ rev = "mb"
    /\ bits = 64
    /\ root = "string"
    /\ probe = DefaultProbe
    /\ pc = "off"
    /\ first = NotCalled
    /\ second = NotCalled

InitStream ==
    /\ SchemaIdle
    /\ AgentIdle
    /\ resp \in StreamReplies
    /\ unread = <<>>
    /\ event = NoEvent
    /\ delivered = <<>>
    /\ hpc = "idle"
    /\ herr = NilError
    /\ asstID = ""
    /\ sent = <<>>

\* Stream returns err, stream.go:52, :59, :67, :70, :73.
streamReturns(err, rest) ==
    /\ hpc' = "done"
    /\ herr' = err
    /\ unread' = rest
    /\ UNCHANGED <<event, delivered>>

\* The loop of stream.go:63-75 up to the call of the handler at :72 or to
\* the return; r is what reader.read() came to.
streamLoop(r) ==
    IF r.err # NilError
    THEN streamReturns(IF r.err.is = "io.EOF" THEN NilError
                       ELSE Wrap("read stream event", r.err), r.rest)
    ELSE /\ hpc' = "handling"
         /\ event' = r.event
         /\ delivered' = Append(delivered, r.event)
         /\ unread' = r.rest
         /\ UNCHANGED herr

\* stream.go:50-62: err is what the request came to.
streamBegin(err) ==
    IF err # NilError THEN streamReturns(err, <<>>)
    ELSE streamLoop(read(resp.Body, resp.ending, NoEvent))

\* Stream is called, stream.go:23-62, and runs to its first call of the
\* handler or to its return.
StreamCall ==
    /\ hpc = "idle"
    /\ sent' = <<"/runs">>
    /\ streamBegin(roundTrip(resp))
    /\ UNCHANGED <<resp, asstID, schemaVars, agentVars>>

\* The handler returns nil, and Stream reads on, stream.go:72-75, :64.
HandlerReturns ==
    /\ hpc = "handling"
    /\ streamLoop(read(unread, resp.ending, NoEvent))
    /\ UNCHANGED <<resp, asstID, sent, schemaVars, agentVars>>

\* The handler returns an error, stream.go:72-74.
HandlerFails ==
    /\ hpc = "handling"
    /\ streamReturns(Wrap("handle stream event", HandlerError), unread)
    /\ UNCHANGED <<resp, asstID, sent, schemaVars, agentVars>>

NextStream == StreamCall \/ HandlerReturns \/ HandlerFails

SpecStream == InitStream /\ [][NextStream]_vars

(***************************************************************************)
(* A program that deletes an assistant once, through the client            *)
(* (openai/internal/assistant.go:73-86) or through the executor            *)
(* (part_010:318-333).                                                     *)
(***************************************************************************)
AssistantIDs == {"", "asst_1", "asst_2"}

DeleteReplies ==
    {Reply(TRUE, 0, <<>>, "eof")}
      \cup {Reply(FALSE, c, m, "eof") :
               c \in {200, 204, 301, 400, 401, 403, 404, 500, 503},
               m \in {<<>>, <<"g", "o", "n", "e">>}}

InitDelete ==
    /\ SchemaIdle
    /\ AgentIdle
    /\ resp \in DeleteReplies
    /\ unread = <<>>
    /\ event = NoEvent
    /\ delivered = <<>>
    /\ hpc = "idle"
    /\ herr = NilError
    /\ asstID \in AssistantIDs
    /\ sent = <<>>

\* assistant.go:74-85 and part_010:323-332: err is what httpclient.Delete
\* returned.
deleted(err) ==
    IF err # NilError /\ (err.is # "StatusError" \/ err.Code = 404)
    THEN /\ herr' = Wrap("delete subject", err)
         /\ UNCHANGED asstID
    ELSE /\ asstID' = ""
         /\ herr' = NilError

\* Client.DeleteAssistant, assistant.go:73-86
DeleteAssistant ==
    /\ hpc = "idle"
    /\ hpc' = "done"
    /\ sent' = <<"/assistants/" \o asstID>>
    /\ deleted(Delete(resp))
    /\ UNCHANGED <<resp, unread, event, delivered, schemaVars, agentVars>>

\* Executor.deleteAssistant, part_010:318-333
deleteAssistant ==
    /\ hpc = "idle"
    /\ hpc' = "done"
    /\ IF asstID = ""
       THEN UNCHANGED <<herr, asstID, sent>>
       ELSE /\ sent' = <<"/assistants/" \o asstID>>
            /\ deleted(Delete(resp))
    /\ UNCHANGED <<resp, unread, event, delivered, schemaVars, agentVars>>

NextDelete == DeleteAssistant \/ deleteAssistant

SpecDelete == InitDelete /\ [][NextDelete]_vars

(***************************************************************************)
(* The type graph, for stating the properties: what a type contains, and   *)
(* what a field is called in the document.                                 *)
(***************************************************************************)
IsNamedRecord(t) == TypeOf(t).Kind = "struct" /\ TypeOf(t).Name # ""

\* The types a type is made of directly.
Succ(t) ==
    LET T == TypeOf(t)
    IN  IF T.Kind \in {"ptr", "slice", "array", "map"} THEN {T.Elem}
        ELSE IF T.Kind = "struct"
        THEN {T.Fields[i].Type : i \in 1..Len(T.Fields)}
        ELSE {}

\* The types reached from S; with guarded, without going through a named
\* record.
RECURSIVE Closure(_, _)
Closure(S, guarded) ==
    LET open == {n \in S : ~(guarded /\ IsNamedRecord(n))}
        next == S \cup UNION {Succ(n) : n \in open}
    IN  IF next = S THEN S ELSE Closure(next, guarded)

Reachable(t) == Closure({t}, FALSE)

\* Every cycle of the types reached from t passes through a named record.
CyclesThroughNamedRecords(t) ==
    \A n \in Reachable(t) :
        IsNamedRecord(n) \/ n \notin Closure(Succ(n), TRUE)

\* The property name a field is given by its json tag.
TargetName(f) ==
    LET n == Cut(TagGet(f.Tag, "json"), cComma).before
    IN  IF n # <<>> THEN Str(n) ELSE f.Name

Ignored(f) == Cut(TagGet(f.Tag, "json"), cComma).before = cDash

\* The fields of the record t that can give the property called name.
FieldsCalled(t, name) ==
    LET fs == getFields(t, {}).fields
    IN  {fs[i] : i \in {j \in 1..Len(fs) : ~Ignored(fs[j]) /\ TargetName(fs[j]) = name}}

Occurrences(seq, x) == Cardinality({i \in 1..Len(seq) : seq[i] = x})

\* The first call returned a document under the given revision.
Derived(r) == rev = r /\ pc # "init" /\ first.status = "ok"

(***************************************************************************)
(* C1.  In the $defs-producing revision For[T] terminates for every type T *)
(* whose cycles all pass through a named record type, and returns either a *)
(* document (with a nil error) or an error.                                *)
(***************************************************************************)
C1_Terminates ==
    (rev = "defs" /\ pc # "init" /\ CyclesThroughNamedRecords(root)) =>
        /\ pc # "crashed"
        /\ first.status \in {"ok", "error"}
        /\ first.status = "ok" => first.err = NoErr /\ first.schema # <<>>
        /\ first.status = "error" => first.err # NoErr

\* C1's case: the mutually embedding records of the tests, with their slice,
\* array and pointer cycles, have been derived.
C1_Witness ==
    /\ Derived("defs")
    /\ root = "schema_test.RecursiveChild"
    /\ CyclesThroughNamedRecords(root)
    /\ "schema_test.RecursiveChildLoop" \in DOMAIN first.schema[1].Definitions

(***************************************************************************)
(* C2.  In a document of the $defs-producing revision a $ref of "#" stands *)
(* only where the referenced type is the root type, and every reference to *)
(* another named record is "#/$defs/<its name>", whatever the root is.     *)
(***************************************************************************)
RECURSIVE RefsRight(_, _)
RefsRight(typ, s) ==
    LET t == Deref(typ)
    IN  IF s.Ref # ""
        THEN /\ IsNamedRecord(t)
             /\ s.Ref = IF t = Deref(root) THEN "#" ELSE "#/$defs/" \o t
        ELSE /\ s.Items # <<>> => RefsRight(TypeOf(t).Elem, s.Items[1])
             /\ \A n \in DOMAIN s.Properties :
                    \E f \in FieldsCalled(t, n) : RefsRight(f.Type, s.Properties[n])

C2_RefRootOnly ==
    Derived("defs") =>
        /\ RefsRight(root, first.schema[1])
        /\ \A N \in DOMAIN first.schema[1].Definitions :
               RefsRight(N, first.schema[1].Definitions[N])

(***************************************************************************)
(* C3.  After For[T] or For[*T] of the $defs-producing revision returned   *)
(* without error for a named record T, $defs has no entry for T, and no    *)
(* $defs at all when the walk met no other named record.                   *)
(***************************************************************************)
OneDeref(t) == IF TypeOf(t).Kind = "ptr" THEN TypeOf(t).Elem ELSE t

C3_NoRootEntry ==
    (Derived("defs") /\ IsNamedRecord(OneDeref(root))) =>
        /\ OneDeref(root) \notin DOMAIN first.schema[1].Definitions
        /\ {n \in Reachable(root) : IsNamedRecord(n)} = {OneDeref(root)}
              => first.schema[1].Definitions = EmptyMap

(***************************************************************************)
(* C4.  Where a field a record declares and a field promoted from an       *)
(* embedded type have the same target property name, the property is the   *)
(* declared field's and the name is in required at most once, whatever the *)
(* two fields are called in Go.                                            *)
(***************************************************************************)
Declared(t) ==
    SelectSeq(TypeOf(t).Fields,
              LAMBDA f : f.Exported /\ ~f.Anonymous /\ ~Ignored(f))

C4_DirectFieldWins ==
    (Derived("mb") /\ TypeOf(Deref(root)).Kind = "struct"
                   /\ first.schema[1].Type = typeObject) =>
        LET t    == Deref(root)
            doc  == first.schema[1]
            own  == Declared(t)
        IN  \A i \in 1..Len(own) :
               LET n == TargetName(own[i])
               IN  (\E g \in FieldsCalled(t, n) : g # own[i]) =>
                      /\ n \in DOMAIN doc.Properties
                      /\ doc.Properties[n] = schemaForField(own[i], 0).x
                      /\ Occurrences(doc.Required, n) <= 1

(***************************************************************************)
(* C5.  In the maps-and-bounds revision a field's target name is in        *)
(* required iff its required tag is "true", or it has no required tag and  *)
(* its json tag has no omitempty among the options after the comma.        *)
(***************************************************************************)
HasOmitemptyOption(f) ==
    LET cut  == Cut(TagGet(f.Tag, "json"), cComma)
        opts == Split(cut.after, cComma)
    IN  cut.found /\ \E i \in 1..Len(opts) : opts[i] = cOmitempty

C5_RequiredIff ==
    (Derived("mb") /\ root = ProbeRecord) =>
        LET f == TypeOf(root).Fields[1]
            n == TargetName(f)
        IN  n \in DOMAIN first.schema[1].Properties =>
               ((Occurrences(first.schema[1].Required, n) > 0)
                  <=> \/ TagGet(f.Tag, "required") = cTrue
                      \/ ~TagHas(f.Tag, "required") /\ ~HasOmitemptyOption(f))

(***************************************************************************)
(* C6.  An error raised anywhere in the type graph (an unsupported type, a *)
(* malformed constraint tag, an invalid literal) makes For return a        *)
(* non-nil error and no schema: the nil pointer, or the zero Schema in the *)
(* by-value revision.  A schema is never returned with an error.           *)
(***************************************************************************)
UnsupportedKinds == {"map", "chan", "func", "interface", "complex128"}

IntTagKeys ==
    {"minLength", "maxLength", "minItems", "maxItems", "minProperties",
     "maxProperties"}

FloatTagKeys ==
    {"multipleOf", "maximum", "exclusiveMaximum", "minimum", "exclusiveMinimum"}

BoolTagKeys == {"required", "uniqueItems"}

\* The field V of the probe record carries a tag that is no value of its kind.
MalformedTag ==
    LET tag == probe.tag
    IN  /\ root = ProbeRecord
        /\ "json" \notin DOMAIN tag
        /\ \/ /\ "required" \in DOMAIN tag
              /\ tag["required"] \notin {<<>>, cTrue, cFalse}
              /\ probe.typ = "string"
           \/ /\ rev = "mb"
              /\ \/ \E k \in DOMAIN tag \cap BoolTagKeys :
                       tag[k] \notin {<<>>, cTrue, cFalse}
                 \/ \E k \in DOMAIN tag \cap IntTagKeys :
                       tag[k] # <<>> /\ ~Atoi(tag[k], bits).ok
                 \/ \E k \in DOMAIN tag \cap FloatTagKeys :
                       tag[k] # <<>> /\ ~ParseFloat(tag[k]).ok
                 \/ /\ "example" \in DOMAIN tag
                    /\ probe.typ \in {"bool", "int", "uint64", "float64"}
                    /\ ~Unmarshal(tag["example"]).ok

C6_ErrorOrSchema ==
    pc # "init" =>
        /\ first.status = "error" =>
              /\ first.err # NoErr
              /\ first.schema = IF rev = "mb" THEN <<>> ELSE <<ZeroSchema>>
        /\ first.status = "ok" => first.err = NoErr
        /\ MalformedTag => first.status = "error"
        /\ (rev = "defs" /\ TypeOf(Deref(root)).Kind \in UnsupportedKinds)
              => first.status = "error"

\* C6's case: a derivation of the maps-and-bounds revision has failed on a
\* literal that is no JSON.
C6_Witness ==
    /\ rev = "mb" /\ pc = "called" /\ MalformedTag
    /\ first.status = "error"
    /\ first.err.msg = "invalid tag value"
    /\ first.err.cause = "encoding/json"

(***************************************************************************)
(* C7.  Every node of type object of a returned document has               *)
(* additionalProperties set: on a record false, or true where the record   *)
(* has a _ field tagged additionalProperties:"true"; on a map the schema   *)
(* of the value type.  The _ field is in no properties and no required.    *)
(***************************************************************************)
\* The record t has a _ field tagged additionalProperties:"true".
HasOpenSentinel(t) ==
    \E i \in 1..Len(TypeOf(t).Fields) :
        /\ TypeOf(t).Fields[i].Name = "_"
        /\ TagGet(TypeOf(t).Fields[i].Tag, "additionalProperties") = cTrue

\* The _ field that Type.FieldByName finds for the record t is tagged
\* additionalProperties:"true", in the revision that looks for it.
FoundOpenSentinel(t) ==
    /\ rev = "mb"
    /\ FieldByName(t, "_").ok
    /\ TagGet(FieldByName(t, "_").field.Tag, "additionalProperties") = cTrue

\* The object nodes of the schema s derived for typ are as they should be;
\* asClaimed tells which of the two readings of "has a _ field" is meant.
RECURSIVE ObjectNodesRight(_, _, _)
ObjectNodesRight(typ, s, asClaimed) ==
    LET t     == Deref(typ)
        T     == TypeOf(t)
        isObj == s.Type # <<>> /\ s.Type[1] = "object"
        open  == IF asClaimed THEN HasOpenSentinel(t) ELSE FoundOpenSentinel(t)
    IN  IF s.Ref # "" THEN TRUE
        ELSE IF isObj /\ T.Kind = "struct"
        THEN /\ s.AdditionalProperties = APBool(open)
             /\ "_" \notin DOMAIN s.Properties
             /\ Occurrences(s.Required, "_") = 0
             /\ \A n \in DOMAIN s.Properties :
                    \E f \in FieldsCalled(t, n) :
                        ObjectNodesRight(f.Type, s.Properties[n], asClaimed)
        ELSE IF isObj /\ T.Kind = "map"
        THEN /\ s.AdditionalProperties = APSchema(schemaFor(T.Elem, 0).x)
             /\ ObjectNodesRight(T.Elem, s.AdditionalProperties.s, asClaimed)
        ELSE IF isObj THEN FALSE
        ELSE s.Items # <<>> => ObjectNodesRight(T.Elem, s.Items[1], asClaimed)

DocumentNodesRight(asClaimed) ==
    /\ ObjectNodesRight(root, first.schema[1], asClaimed)
    /\ \A N \in DOMAIN first.schema[1].Definitions :
           ObjectNodesRight(N, first.schema[1].Definitions[N], asClaimed)

\* C7 as claimed: true exactly where the record has a _ field with the tag.
C7_AdditionalProperties ==
    (pc # "init" /\ first.status = "ok") => DocumentNodesRight(TRUE)

\* C7 amended: in the maps-and-bounds revision a record's
\* additionalProperties is true exactly when the _ field that FieldByName
\* finds (the first _ field the record declares, else the one promoted from
\* its embedded records) carries the tag with "true"; in the $defs-producing
\* revision it is false whatever _ fields the record has.
C7_AdditionalPropertiesAsFound ==
    (pc # "init" /\ first.status = "ok") => DocumentNodesRight(FALSE)

\* C7's case: a record with a map, an open and a closed record has been
\* derived.
C7_Witness ==
    /\ Derived("mb") /\ root = "struct{M;O;C}"
    /\ first.schema[1].Properties["o"].AdditionalProperties = APBool(TRUE)
    /\ first.schema[1].Properties["c"].AdditionalProperties = APBool(FALSE)
    /\ first.schema[1].Properties["m"].AdditionalProperties.k = "schema"

IsIntegralNumber(cs) ==
    /\ Unmarshal(cs).ok
    /\ Unmarshal(cs).v.k = "num"
    /\ Unmarshal(cs).v.e >= 0

\* The field V of the probe record has the one tag key and nothing else.
ProbeWith(key) == root = ProbeRecord /\ DOMAIN probe.tag = {key}

C9_IntegerLiterals ==
    (rev = "mb" /\ pc # "init" /\ probe.typ \in {"int", "uint64"}
                /\ (ProbeWith("example") \/ ProbeWith("enum"))) =>
        LET isEnum == ProbeWith("enum")
            lits   == IF isEnum THEN Split(probe.tag["enum"], cComma)
                      ELSE <<probe.tag["example"]>>
            bad    == {i \in 1..Len(lits) : ~IsIntegralNumber(lits[i])}
            worst  == CHOOSE i \in bad : \A j \in bad : i <= j
            nums   == [i \in 1..Len(lits) |-> Unmarshal(lits[i]).v]
        IN  IF bad = {}
            THEN /\ first.status = "ok"
                 /\ IF isEnum
                    THEN first.schema[1].Properties["V"].Enum = nums
                    ELSE first.schema[1].Properties["V"].Examples = nums
            ELSE /\ first.status = "error"
                 /\ first.err.kind = typeInteger
                 /\ first.err.value = Str(lits[worst])
                 /\ first.err.field = "V"

(***************************************************************************)
(* C10.  When the example literal of an array or record field, or the enum *)
(* literal of a record field, is JSON of the right outer kind that         *)
(* mismatches at a nested position, For fails with an error whose path is  *)
(* the field's name extended by [i] and .prop down to the offending value, *)
(* whose kind is the one expected there, and whose literal is the JSON     *)
(* text of that value; in an array the element reported is the mismatching *)
(* one of the lowest index.                                                *)
(***************************************************************************)
\* The decoded value v is of the kind the schema s asks for.
Fits(s, v) ==
    CASE s.Type = typeBoolean -> v.k = "bool"
      [] s.Type = typeNumber  -> v.k = "num"
      [] s.Type = typeInteger -> v.k = "num" /\ v.e >= 0
      [] s.Type = typeString  -> v.k = "str"
      [] s.Type = typeArray   -> v.k = "arr"
      [] s.Type = typeObject  -> v.k = "obj"
      [] OTHER -> TRUE

\* The keys of the object v that the schema s has a property for.
Described(s, v) == {k \in DOMAIN v.o : Str(k) \in DOMAIN s.Properties}

RECURSIVE Conforms(_, _)
Conforms(s, v) ==
    /\ Fits(s, v)
    /\ (s.Type = typeArray /\ s.Items # <<>>) =>
          \A i \in 1..Len(v.a) : Conforms(s.Items[1], v.a[i])
    /\ s.Type = typeObject =>
          \A k \in Described(s, v) : Conforms(s.Properties[Str(k)], v.o[k])

\* The reports the claim allows for a value v at path that does not conform.
RECURSIVE Offences(_, _, _)
Offences(path, s, v) ==
    LET bad   == {i \in 1..Len(v.a) : ~Conforms(s.Items[1], v.a[i])}
        least == CHOOSE i \in bad : \A j \in bad : i <= j
    IN  IF ~Fits(s, v)
        THEN {[field |-> path, kind |-> s.Type, value |-> Marshal(v)]}
        ELSE IF s.Type = typeArray /\ s.Items # <<>>
        THEN IF bad = {} THEN {}
             ELSE Offences(path \o "[" \o Itoa(least - 1) \o "]",
                           s.Items[1], v.a[least])
        ELSE IF s.Type = typeObject
        THEN UNION {Offences(path \o "." \o Str(k), s.Properties[Str(k)], v.o[k]) :
                    k \in Described(s, v)}
        ELSE {}

\* The literals of the probe's one tag (an enum tag is split at its commas)
\* and the schema they are held against (for the enum of an array, the
\* schema of its elements).
NestedTexts ==
    IF ProbeWith("enum") THEN Split(probe.tag["enum"], cComma)
    ELSE <<probe.tag["example"]>>

NestedBase ==
    LET s == schemaFor(probe.typ, 0).x
    IN  IF ProbeWith("enum") /\ s.Type = typeArray /\ s.Items # <<>>
        THEN s.Items[1] ELSE s

NestedValue(i) == Unmarshal(NestedTexts[i]).v

\* The case the claim speaks of: the field is an array or a record, every
\* literal decodes to a value of the outer kind, and one of them mismatches
\* below it.
NestedMismatch ==
    /\ rev = "mb" /\ pc # "init"
    /\ (ProbeWith("example") \/ ProbeWith("enum"))
    /\ schemaFor(probe.typ, 0).st = "ok"
    /\ NestedBase.Type \in {typeArray, typeObject}
    /\ \A i \in DOMAIN NestedTexts :
          Unmarshal(NestedTexts[i]).ok /\ Fits(NestedBase, NestedValue(i))
    /\ \E i \in DOMAIN NestedTexts : ~Conforms(NestedBase, NestedValue(i))

\* The first of the literals that mismatches.
NestedFirst ==
    CHOOSE i \in DOMAIN NestedTexts :
        /\ ~Conforms(NestedBase, NestedValue(i))
        /\ \A j \in 1..(i - 1) : Conforms(NestedBase, NestedValue(j))

C10_NestedPath ==
    NestedMismatch =>
        /\ first.status = "error"
        /\ [field |-> first.err.field, kind |-> first.err.kind,
            value |-> first.err.value]
              \in Offences("V", NestedBase, NestedValue(NestedFirst))

\* C10's case: an array of arrays whose second element mismatches at its
\* second and third element, and whose third element mismatches too.
C10_Witness ==
    /\ NestedMismatch
    /\ probe.typ = "[][]int"
    /\ ProbeWith("example")
    /\ Len(NestedValue(1).a) = 3
    /\ first.err.field = "V[1][1]"
    /\ first.err.value = "false"

(***************************************************************************)
(* C11.  A constraint tag that is on a walked field with a literal that is *)
(* no value of the tag's kind makes For fail with an error that names the  *)
(* tag, the field and the literal: anything but "true" and "false" for     *)
(* required, uniqueItems and additionalProperties, anything that is no     *)
(* integer for the six length and count tags, anything that is no float    *)
(* for the five numeric bounds.                                            *)
(***************************************************************************)
AllDigits(cs) == \A i \in 1..Len(cs) : IsDigit(cs[i])

Unsigned(cs) ==
    IF cs # <<>> /\ Head(cs) \in {"+", "-"} THEN Tail(cs) ELSE cs

\* An optional sign and one digit or more.
IsIntLiteral(cs) == Unsigned(cs) # <<>> /\ AllDigits(Unsigned(cs))

\* A decimal floating-point literal: an optional sign, digits with at most
\* one point among them, and an optional exponent.
IsFloatLiteral(cs) ==
    LET body == [i \in 1..Len(Unsigned(cs)) |->
                    IF Unsigned(cs)[i] = "E" THEN "e" ELSE Unsigned(cs)[i]]
        ex   == Cut(body, <<"e">>)
        pt   == Cut(ex.before, <<".">>)
    IN  /\ AllDigits(pt.before) /\ AllDigits(pt.after)
        /\ pt.before \o pt.after # <<>>
        /\ ex.found => IsIntLiteral(ex.after)

\* The literal is a value of the kind of the tag called key.
ValidFor(key, lit) ==
    CASE key \in {"required", "uniqueItems", "additionalProperties"} ->
           lit \in {cTrue, cFalse}
      [] key \in IntTagKeys -> IsIntLiteral(lit)
      [] key \in FloatTagKeys -> IsFloatLiteral(lit)
      [] OTHER -> TRUE

\* The constraint tags of the probe field whose literal is no value of their
\* kind.
BadTags == {k \in DOMAIN probe.tag : ~ValidFor(k, probe.tag[k])}

C11_BadTagFails ==
    (rev = "mb" /\ pc # "init" /\ root = ProbeRecord
       /\ ~Ignored(TypeOf(root).Fields[1]) /\ BadTags # {}) =>
        /\ first.status = "error"
        /\ \E k \in BadTags :
              /\ first.err.tag = k
              /\ first.err.field = "V"
              /\ first.err.value = Str(probe.tag[k])

(***************************************************************************)
(* C12.  In the maps-and-bounds revision a type of a kind the walker has   *)
(* no case for (a channel, a function, an interface, a complex number),    *)
(* wherever it stands in the graph, makes For fail with an unsupported-    *)
(* type error and no schema.                                               *)
(***************************************************************************)
UnknownKinds == {"chan", "func", "interface", "complex128"}

\* The walk from the root comes to a type of a kind with no case.
MeetsUnknownKind(t) ==
    \E n \in Reachable(t) : TypeOf(n).Kind \in UnknownKinds

C12_UnsupportedFails ==
    (rev = "mb" /\ pc # "init" /\ MeetsUnknownKind(root)) =>
        /\ first.status = "error"
        /\ first.err.msg = "unsupported type"
        /\ first.schema = <<>>

\* The schema {}: no type, no items, no properties.
IsEmptySchema(s) ==
    /\ s.Type = <<>> /\ s.Ref = ""
    /\ s.Items = <<>> /\ s.Properties = EmptyMap
    /\ s.AdditionalProperties = APNil
    /\ s.Enum = <<>> /\ s.Required = <<>>

\* Where the type has a kind with no case, the schema is {}; s is the schema
\* derived for typ.
RECURSIVE EmptyAtUnknown(_, _)
EmptyAtUnknown(typ, s) ==
    LET t  == Deref(typ)
        rt == TypeOf(t)
    IN  CASE rt.Kind \in UnknownKinds -> IsEmptySchema(s)
          [] s.Type = typeArray ->
               s.Items # <<>> /\ EmptyAtUnknown(rt.Elem, s.Items[1])
          [] rt.Kind = "map" ->
               /\ s.AdditionalProperties.k = "schema"
               /\ EmptyAtUnknown(rt.Elem, s.AdditionalProperties.s)
          [] rt.Kind = "struct" ->
               \A n \in DOMAIN s.Properties :
                  \E f \in FieldsCalled(t, n) :
                     EmptyAtUnknown(f.Type, s.Properties[n])
          [] OTHER -> TRUE

\* What the code does instead: in the maps-and-bounds revision such a type
\* is no failure.  It is given the schema {} where it stands, no derivation
\* fails with an unsupported-type error, and a graph in which nothing else
\* fails yields a document; the $defs-producing revision fails on such a
\* root with an unsupported-type error.
C12_UnknownKindIsEmpty ==
    pc # "init" =>
        /\ rev = "mb" => first.err.msg # "unsupported type"
        /\ (rev = "mb" /\ MeetsUnknownKind(root)) =>
              /\ first.status = "ok"
              /\ EmptyAtUnknown(root, first.schema[1])
        /\ (rev = "defs" /\ TypeOf(Deref(root)).Kind \in UnknownKinds) =>
              /\ first.status = "error"
              /\ first.err = UnsupportedType(Deref(root))

\* A slice of channels has been derived by the maps-and-bounds revision, and
\* its items are the schema {}.
C12_Witness ==
    /\ rev = "mb" /\ pc = "called"
    /\ root = "[]chan int"
    /\ first.status = "ok"
    /\ first.schema[1].Type = typeArray
    /\ first.schema[1].Items = <<ZeroSchema>>

(***************************************************************************)
(* C13.  For a scalar kind or a byte sequence as the root type, directly   *)
(* or behind pointers, For returns exactly the fragment of the kind:       *)
(* boolean; integer with the format int32 or int64 by the width, and       *)
(* minimum 0 when unsigned; number with the format float or double;        *)
(* string; string with contentEncoding base64 and no items for a slice or  *)
(* array of bytes.                                                         *)
(***************************************************************************)
SignedWidth ==
    "int8" :> 8 @@ "int16" :> 16 @@ "int32" :> 32 @@ "int64" :> 64
    @@ "int" :> bits

UnsignedWidth ==
    "uint8" :> 8 @@ "uint16" :> 16 @@ "uint32" :> 32 @@ "uint64" :> 64
    @@ "uint" :> bits

FormatOfWidth(w) == IF w <= 32 THEN "int32" ELSE "int64"

\* The type is a slice or an array of bytes.
IsByteSequence(t) ==
    /\ TypeOf(t).Kind \in {"slice", "array"}
    /\ TypeOf(TypeOf(t).Elem).Kind = "uint8"

\* The type is of a scalar kind, named or not.
IsScalar(t) ==
    TypeOf(t).Kind \in {"bool", "float32", "float64", "string"}
                          \cup DOMAIN SignedWidth \cup DOMAIN UnsignedWidth

\* The fragment of the scalar or byte sequence t.
Fragment(t) ==
    LET k == TypeOf(t).Kind
    IN  CASE k = "bool" -> [ZeroSchema EXCEPT !.Type = <<"boolean">>]
          [] k \in DOMAIN SignedWidth ->
               [ZeroSchema EXCEPT !.Type = <<"integer">>,
                                  !.Format = FormatOfWidth(SignedWidth[k])]
          [] k \in DOMAIN UnsignedWidth ->
               [ZeroSchema EXCEPT !.Type = <<"integer">>,
                                  !.Format = FormatOfWidth(UnsignedWidth[k]),
                                  !.Minimum = <<Norm(0, 0)>>]
          [] k = "float32" ->
               [ZeroSchema EXCEPT !.Type = <<"number">>, !.Format = "float"]
          [] k = "float64" ->
               [ZeroSchema EXCEPT !.Type = <<"number">>, !.Format = "double"]
          [] k = "string" -> [ZeroSchema EXCEPT !.Type = <<"string">>]
          [] k \in {"slice", "array"} ->
               [ZeroSchema EXCEPT !.Type = <<"string">>,
                                  !.ContentEncoding = "base64"]

C13_ScalarFragments ==
    (pc # "init" /\ (IsScalar(Deref(root)) \/ IsByteSequence(Deref(root)))) =>
        first = Returned(Fragment(Deref(root)))

\* The fragment without its format and its minimum.
Unformatted(s) == [s EXCEPT !.Format = "", !.Minimum = <<>>]

\* C13 as the code has it.  For a scalar kind or a byte sequence as the root
\* type, directly or behind pointers, For returns a nil error and exactly one
\* fragment.  In the maps-and-bounds revision it is the fragment of the kind
\* (boolean; integer with the format by the width, and minimum 0 when
\* unsigned; number with the format float or double; string; string with
\* contentEncoding base64 and no items for a slice or array of bytes), except
\* for the two byte slices the walker knows by name: net.IP gives a string of
\* the format ipv4 and no contentEncoding, json.RawMessage the schema {}.  In
\* the $defs-producing revision it is the fragment of the kind without format
\* and minimum, for the two named byte slices as well.
C13_FragmentsAsFound ==
    (pc # "init" /\ (IsScalar(Deref(root)) \/ IsByteSequence(Deref(root)))) =>
        first = Returned(
            IF rev = "defs" THEN Unformatted(Fragment(Deref(root)))
            ELSE IF Deref(root) = "net.IP"
            THEN [ZeroSchema EXCEPT !.Type = <<"string">>, !.Format = "ipv4"]
            ELSE IF Deref(root) = "json.RawMessage" THEN ZeroSchema
            ELSE Fragment(Deref(root)))

\* C13's cases: a pointer to a pointer to a byte and int on a 32-bit build,
\* the named int64 time.Duration, the byte slice net.IP, and an unsigned
\* integer in the $defs-producing revision.
C13_Witness ==
    /\ pc = "called" /\ first.status = "ok"
    /\ \/ /\ rev = "mb" /\ root = "**uint8"
          /\ first.schema[1].Format = "int32"
          /\ first.schema[1].Minimum # <<>>
       \/ /\ rev = "mb" /\ root = "int" /\ bits = 32
          /\ first.schema[1].Format = "int32"
       \/ /\ rev = "mb" /\ root = "time.Duration"
          /\ first.schema[1].Format = "int64"
       \/ /\ rev = "mb" /\ root = "net.IP"
          /\ first.schema[1].Format = "ipv4"
          /\ first.schema[1].ContentEncoding = ""
       \/ /\ rev = "defs" /\ root = "uint"
          /\ first.schema[1].Format = ""
          /\ first.schema[1].Minimum = <<>>

(***************************************************************************)
(* C14.  In the maps-and-bounds revision For[T] terminates for a record T  *)
(* that refers to itself: one with a field whose type is T directly,       *)
(* behind a pointer, or as the element of a slice, an array or a map.      *)
(***************************************************************************)
\* The record t is reached again from its own fields.
SelfReferential(t) ==
    TypeOf(t).Kind = "struct" /\ t \in Closure(Succ(t), FALSE)

C14_TerminatesOnCycles ==
    (rev = "mb" /\ pc # "init" /\ SelfReferential(Deref(root))) =>
        /\ pc # "crashed"
        /\ first.status \in {"ok", "error"}

(***************************************************************************)
(* C15.  A field promoted from an embedded type is dropped whenever a      *)
(* field collected before it has the same declared name, also when the two *)
(* have different json names: the property of the embedded field's name    *)
(* is then in neither properties nor required, the outer field's is.       *)
(***************************************************************************)
\* The fields of the record t in the order getFields collects them.
Collected(t) == getFields(t, {}).fields

\* The i-th collected field has the declared name of one collected before.
Shadowed(fs, i) == \E j \in 1..(i - 1) : fs[j].Name = fs[i].Name

\* The property names the fields give that are neither shadowed nor ignored.
KeptNames(fs) ==
    {TargetName(fs[i]) :
        i \in {j \in 1..Len(fs) : ~Shadowed(fs, j) /\ ~Ignored(fs[j])}}

SeqRange(seq) == {seq[i] : i \in 1..Len(seq)}

C15_SameNameDropped ==
    (pc # "init" /\ first.status = "ok"
       /\ TypeOf(Deref(root)).Kind = "struct"
       /\ first.schema[1].Type = typeObject) =>
        LET fs  == Collected(Deref(root))
            doc == first.schema[1]
        IN  /\ DOMAIN doc.Properties = KeptNames(fs)
            /\ SeqRange(doc.Required) \subseteq KeptNames(fs)
            /\ \A i \in 1..Len(fs) :
                  (Shadowed(fs, i) /\ TargetName(fs[i]) \notin KeptNames(fs)) =>
                     /\ TargetName(fs[i]) \notin DOMAIN doc.Properties
                     /\ TargetName(fs[i]) \notin SeqRange(doc.Required)

\* C15's case: the record of the test field-embed-override has been
\* derived; its field Value, called override, hides the Value of Embedded,
\* called value.
C15_Witness ==
    /\ pc = "called" /\ first.status = "ok"
    /\ root = "struct{Embedded;Value}"
    /\ \E i \in 1..Len(Collected(root)) :
          /\ Shadowed(Collected(root), i)
          /\ TargetName(Collected(root)[i]) = "value"
    /\ DOMAIN first.schema[1].Properties = {"override"}
    /\ first.schema[1].Required = <<"override">>

(***************************************************************************)
(* C16.  In a derived record schema required lists the fields the record   *)
(* declares itself first, in the order of their declaration, and the       *)
(* fields promoted from embedded types behind them, also where the         *)
(* embedded field is declared first.                                       *)
(***************************************************************************)
\* a is b with some of its elements left out.
RECURSIVE IsSubseq(_, _)
IsSubseq(a, b) ==
    IF a = <<>> THEN TRUE
    ELSE IF b = <<>> THEN FALSE
    ELSE IF Head(a) = Head(b) THEN IsSubseq(Tail(a), Tail(b))
    ELSE IsSubseq(a, Tail(b))

\* The json names of the fields the record t declares itself, in the order
\* of their declaration.
DeclaredNames(t) ==
    [i \in 1..Len(Declared(t)) |-> TargetName(Declared(t)[i])]

\* The json names of the fields promoted to t from embedded types.
PromotedNames(t) ==
    {TargetName(Collected(t)[i]) :
        i \in {j \in 1..Len(Collected(t)) :
                  /\ ~Ignored(Collected(t)[j])
                  /\ \A k \in 1..Len(TypeOf(t).Fields) :
                        TypeOf(t).Fields[k] # Collected(t)[j]
                           \/ TypeOf(t).Fields[k].Anonymous}}

\* required is k names of the declared fields in their order, then names of
\* promoted fields.
OwnFirst(t, required, k) ==
    /\ IsSubseq(SubSeq(required, 1, k), DeclaredNames(t))
    /\ \A i \in (k + 1)..Len(required) : required[i] \in PromotedNames(t)

\* An embedded field stands before a regular field in the declaration of t.
EmbeddedDeclaredFirst(t) ==
    \E i, j \in 1..Len(TypeOf(t).Fields) :
        /\ i < j
        /\ TypeOf(t).Fields[i].Anonymous
        /\ ~TypeOf(t).Fields[j].Anonymous /\ TypeOf(t).Fields[j].Exported

C16_RequiredOrder ==
    (pc # "init" /\ first.status = "ok"
       /\ TypeOf(Deref(root)).Kind = "struct"
       /\ first.schema[1].Type = typeObject) =>
        /\ \E k \in 0..Len(first.schema[1].Required) :
              OwnFirst(Deref(root), first.schema[1].Required, k)
        /\ \A i \in 1..Len(first.schema[1].Required) :
              (/\ first.schema[1].Required[i] \in SeqRange(DeclaredNames(Deref(root)))
               /\ first.schema[1].Required[i] \notin PromotedNames(Deref(root)))
                 => \A j \in 1..(i - 1) :
                       first.schema[1].Required[j]
                          \in SeqRange(DeclaredNames(Deref(root)))

\* C16's case: the record of the test field-embed, whose embedded *Embedded
\* is declared before Value2, has been derived.
C16_Witness ==
    /\ pc = "called" /\ first.status = "ok"
    /\ root = "struct{*Embedded;Value2}"
    /\ EmbeddedDeclaredFirst(root)
    /\ first.schema[1].Required = <<"value2", "value">>

(***************************************************************************)
(* C17: example literals of a field that is an array of strings.           *)
(***************************************************************************)

\* The positions of the commas of cs, with the two ends as sentinels.
Cuts(cs) == {0, Len(cs) + 1} \cup {i \in 1..Len(cs) : cs[i] = ","}

\* The k-th cut of cs, counted from 0.
CommaCut(cs, k) ==
    CHOOSE i \in Cuts(cs) : Cardinality({j \in Cuts(cs) : j < i}) = k

\* cs without the white space at its two ends.
Stripped(cs) ==
    LET ink == {i \in 1..Len(cs) : ~IsSpace(cs[i])}
    IN  IF ink = {} THEN <<>>
        ELSE SubSeq(cs, CHOOSE i \in ink : \A j \in ink : i <= j,
                        CHOOSE i \in ink : \A j \in ink : j <= i)

\* The pieces of cs between its commas, each without surrounding white space.
Pieces(cs) ==
    [k \in 1..(Cardinality(Cuts(cs)) - 1) |->
        Stripped(SubSeq(cs, CommaCut(cs, k - 1) + 1, CommaCut(cs, k) - 1))]

\* The elements of a parsed array that are not strings.
NonStrings(v) == {i \in 1..Len(v.a) : v.a[i].k # "str"}

StringListExample(lit) ==
    IF lit[1] # "["
    THEN /\ first.status = "ok"
         /\ first.schema[1].Properties["V"].Examples = <<JStrs(Pieces(lit))>>
    ELSE IF ~Unmarshal(lit).ok
    THEN first.status = "error" /\ first.err.field = "V"
    ELSE IF NonStrings(Unmarshal(lit).v) = {}
    THEN /\ first.status = "ok"
         /\ first.schema[1].Properties["V"].Examples = <<Unmarshal(lit).v>>
    ELSE /\ first.status = "error"
         /\ \E i \in NonStrings(Unmarshal(lit).v) :
               first.err.field = "V[" \o Itoa(i - 1) \o "]"

\* C17: on a field whose schema is an array of strings, an example literal
\* that does not begin with "[" never fails and yields the list of its
\* comma-separated pieces, each trimmed of surrounding white space, as the one
\* example value; a literal that begins with "[" is parsed as JSON, and when an
\* element is not a string For fails naming the element as V[i].
C17_StringListExample ==
    (rev = "mb" /\ pc # "init" /\ ProbeWith("example")
                /\ probe.typ = "[]string") =>
        StringListExample(probe.tag["example"])

C17_Witness ==
    /\ rev = "mb" /\ pc # "init" /\ ProbeWith("example")
    /\ probe.typ = "[]string"
    /\ probe.tag["example"] = <<"a", ",", " ", "b">>
    /\ first.status = "ok"
    /\ first.schema[1].Properties["V"].Examples = <<JStrs(<<<<"a">>, <<"b">>>>)>>

(***************************************************************************)
(* C18: the values of an enum tag.                                         *)
(***************************************************************************)

\* The pieces of cs between its commas, as they stand.
RawPieces(cs) ==
    [k \in 1..(Cardinality(Cuts(cs)) - 1) |->
        SubSeq(cs, CommaCut(cs, k - 1) + 1, CommaCut(cs, k) - 1)]

\* The schema an enum tag is read against and written to.
EnumTarget(fs) == IF fs.Type = typeArray THEN fs.Items[1] ELSE fs

IsStringList(s) ==
    s.Type = typeArray /\ s.Items # <<>> /\ s.Items[1].Type = typeString

\* What a piece means as a value of schema s.
Coerced(s, piece) ==
    IF s.Type = typeString THEN JStr(piece)
    ELSE IF IsStringList(s) /\ piece # <<>> /\ piece[1] # "["
    THEN JStrs(<<Stripped(piece)>>)
    ELSE Unmarshal(piece).v

\* Whether a piece has a meaning as a value of schema s.
Coercible(s, piece) ==
    \/ s.Type = typeString
    \/ IsStringList(s) /\ piece # <<>> /\ piece[1] # "["
    \/ Unmarshal(piece).ok /\ Conforms(s, Unmarshal(piece).v)

EnumOfTag(fs, pieces) ==
    /\ \A k \in DOMAIN pieces : Coercible(EnumTarget(fs), pieces[k])
    /\ EnumTarget(fs).Enum =
          [k \in DOMAIN pieces |-> Coerced(EnumTarget(fs), pieces[k])]
    /\ fs.Type = typeArray => fs.Enum = <<>>

\* C18: the literal of an enum tag is split on commas and each piece is read
\* against the field's schema, or against the item schema when the field is
\* an array; the values, in the order of the tag, are the enum of that same
\* schema, and an array schema itself has no enum.  For a string schema each
\* piece is taken as it stands, and the reading never fails.
C18_EnumValues ==
    (pc # "init" /\ ProbeWith("enum")) =>
        /\ probe.typ = "string" => first.status = "ok"
        /\ first.status = "ok" =>
              EnumOfTag(first.schema[1].Properties["V"],
                        RawPieces(probe.tag["enum"]))

\* C18's cases: an array of integers with two values on its items, and a
\* string whose pieces keep their white space and may be empty.
C18_Witness ==
    /\ pc # "init" /\ ProbeWith("enum") /\ first.status = "ok"
    /\ \/ /\ probe.typ = "[]int"
          /\ Len(first.schema[1].Properties["V"].Items[1].Enum) = 2
          /\ first.schema[1].Properties["V"].Enum = <<>>
       \/ /\ probe.typ = "string"
          /\ first.schema[1].Properties["V"].Enum =
                <<JStr(<<" ", "a">>), JStr(<<>>), JStr(<<"b", " ">>)>>

(***************************************************************************)
(* C19: the events httpclient.Stream hands to its handler.                 *)
(***************************************************************************)

\* The lines of a body that end with a line feed, without it.
EndedLines(cs) ==
    LET ls == Split(cs, <<"\n">>) IN SubSeq(ls, 1, Len(ls) - 1)

\* The name of the field of a line, and its value.
FieldName(line) ==
    LET l == Stripped(line)
        c == {i \in 1..Len(l) : l[i] = ":"}
    IN  IF c = {} THEN l
        ELSE SubSeq(l, 1, (CHOOSE i \in c : \A j \in c : i <= j) - 1)

FieldValue(line) ==
    LET l == Stripped(line)
        c == {i \in 1..Len(l) : l[i] = ":"}
    IN  IF c = {} THEN <<>>
        ELSE Stripped(SubSeq(l, (CHOOSE i \in c : \A j \in c : i <= j) + 1,
                             Len(l)))

\* The runs of lines that an empty line ends, in the order of the body; the
\* lines after the last empty line belong to no run.
RECURSIVE RunsOf(_, _)
RunsOf(ls, run) ==
    IF ls = <<>> THEN <<>>
    ELSE IF Stripped(Head(ls)) = <<>> THEN <<run>> \o RunsOf(Tail(ls), <<>>)
    ELSE RunsOf(Tail(ls), Append(run, Head(ls)))

IsEventLine(line) == FieldName(line) = <<"e", "v", "e", "n", "t">>

IsDataLine(line) == FieldName(line) = <<"d", "a", "t", "a">>

\* An event block: a run with an event or data line in it.
IsEventBlock(run) ==
    \E i \in 1..Len(run) : IsEventLine(run[i]) \/ IsDataLine(run[i])

RECURSIVE JoinedData(_)
JoinedData(ls) ==
    IF ls = <<>> THEN <<>>
    ELSE IF Len(ls) = 1 THEN FieldValue(ls[1])
    ELSE FieldValue(ls[1]) \o <<"\n">> \o JoinedData(Tail(ls))

\* The event of a run: the type of its last event line, the values of its
\* data lines.
EventOf(run) ==
    LET es == SelectSeq(run, IsEventLine)
    IN  [Type |-> IF es = <<>> THEN "" ELSE Str(FieldValue(es[Len(es)])),
         Data |-> JoinedData(SelectSeq(run, IsDataLine))]

EventBlocks(cs) ==
    LET blocks == SelectSeq(RunsOf(EndedLines(cs), <<>>), IsEventBlock)
    IN  [i \in 1..Len(blocks) |-> EventOf(blocks[i])]

IsPrefix(s, t) == Len(s) <= Len(t) /\ s = SubSeq(t, 1, Len(s))

Streaming == hpc \in {"handling", "done"} /\ roundTrip(resp) = NilError

\* C19: the handler is called exactly once for each event block of the
\* response body (a non-empty run of event and data lines that an empty line
\* ends) and for nothing else, in the order of the blocks, with the type of
\* the event line and the data of the data lines; Stream stops at the first
\* error of the handler and returns it, and returns nil when the body ends.
C19_OneCallPerBlock ==
    Streaming =>
        /\ IsPrefix(delivered, EventBlocks(resp.Body))
        /\ (hpc = "done" /\ herr.is = "handler") =>
              herr.wraps = <<"handle stream event">>
        /\ (hpc = "done" /\ herr.is # "handler" /\ resp.ending = "eof") =>
              herr = NilError /\ delivered = EventBlocks(resp.Body)

\* The same for every run that an empty line ends, whatever is in it: what
\* the code does.
AllRuns(cs) ==
    LET runs == RunsOf(EndedLines(cs), <<>>)
    IN  [i \in 1..Len(runs) |-> EventOf(runs[i])]

StreamAsFound ==
    Streaming =>
        /\ IsPrefix(delivered, AllRuns(resp.Body))
        /\ (hpc = "done" /\ herr.is = "handler") =>
              herr.wraps = <<"handle stream event">>
        /\ (hpc = "done" /\ herr.is # "handler" /\ resp.ending = "eof") =>
              herr = NilError /\ delivered = AllRuns(resp.Body)

(***************************************************************************)
(* C20: deleting an assistant the server does not know.                    *)
(***************************************************************************)

\* The request was sent and did not succeed: no reply, or a status that is
\* no success.
RequestFailed ==
    /\ sent # <<>>
    /\ resp.failed \/ resp.StatusCode < 200 \/ resp.StatusCode >= 400

NotFoundReply == ~resp.failed /\ resp.StatusCode = 404

\* C20: DeleteAssistant ignores a 404 of the server: when the DELETE request
\* fails with status 404 it returns nil and the assistant's ID is empty
\* afterwards; when the request fails in any other way, with another error
\* status or with a transport error, it returns an error and the assistant's
\* ID is the one the request was sent for.
C20_Ignores404 ==
    (hpc = "done" /\ RequestFailed) =>
        IF NotFoundReply
        THEN herr = NilError /\ asstID = ""
        ELSE herr # NilError /\ sent = <<"/assistants/" \o asstID>>

\* What the code does: it is the 404 and the transport error that come back
\* as errors, and every other error status that is ignored.
DeleteAsFound ==
    (hpc = "done" /\ RequestFailed) =>
        IF NotFoundReply \/ resp.failed
        THEN herr # NilError /\ sent = <<"/assistants/" \o asstID>>
        ELSE herr = NilError /\ asstID = ""

(***************************************************************************)
(* C21: the constraint tags only extend the schema of the field's type.    *)
(***************************************************************************)

\* The schema attribute that each constraint tag sets.
AttributeOf ==
       "multipleOf" :> "MultipleOf" @@ "maximum" :> "Maximum"
    @@ "exclusiveMaximum" :> "ExclusiveMaximum" @@ "minimum" :> "Minimum"
    @@ "exclusiveMinimum" :> "ExclusiveMinimum"
    @@ "minLength" :> "MinLength" @@ "maxLength" :> "MaxLength"
    @@ "minItems" :> "MinItems" @@ "maxItems" :> "MaxItems"
    @@ "minProperties" :> "MinProperties"
    @@ "maxProperties" :> "MaxProperties"

\* fs has, for every constraint tag that is not among tags, what base has.
KeepsBase(fs, base, tags) ==
    \A k \in DOMAIN AttributeOf :
        k \notin tags => fs[AttributeOf[k]] = base[AttributeOf[k]]

\* C21: in the maps-and-bounds revision every schema attribute whose
\* constraint tag is absent on a field keeps the value derived from the
\* field's type: an unsigned integer without a minimum tag keeps minimum 0,
\* an array of length n without minItems and maxItems tags keeps both at n.
C21_AbsentTagsKeepBase ==
    (rev = "mb" /\ pc # "init" /\ root = ProbeRecord /\ first.status = "ok") =>
        \A p \in DOMAIN first.schema[1].Properties :
            KeepsBase(first.schema[1].Properties[p],
                      schemaFor(probe.typ, 0).x, DOMAIN probe.tag)

(***************************************************************************)
(* C22: fields of one name promoted from different embedding depths.       *)
(***************************************************************************)
MaxEmbedding == 3

\* The fields that the record t has at embedding depth d: its own at 0, those
\* of the records it embeds at 1, and so on.
RECURSIVE FieldsAt(_, _)
FieldsAt(t, d) ==
    IF TypeOf(t).Kind # "struct" THEN {}
    ELSE IF d = 0
    THEN {TypeOf(t).Fields[i] :
            i \in {j \in 1..Len(TypeOf(t).Fields) :
                      /\ TypeOf(t).Fields[j].Exported
                      /\ ~TypeOf(t).Fields[j].Anonymous}}
    ELSE UNION {FieldsAt(Deref(TypeOf(t).Fields[i].Type), d - 1) :
            i \in {j \in 1..Len(TypeOf(t).Fields) :
                      /\ TypeOf(t).Fields[j].Exported
                      /\ TypeOf(t).Fields[j].Anonymous}}

\* The property that the field f gives is the one the document has.
IsKept(doc, f) ==
    /\ TargetName(f) \in DOMAIN doc.Properties
    /\ doc.Properties[TargetName(f)].Description
          = Str(TagGet(f.Tag, "description"))

\* Of two promoted fields of one name, the one nearer to t is in the document.
NearerKept(t, doc) ==
    \A d1 \in 1..MaxEmbedding : \A d2 \in (d1 + 1)..MaxEmbedding :
        \A f1 \in FieldsAt(t, d1) : \A f2 \in FieldsAt(t, d2) :
            (/\ f1.Name = f2.Name
             /\ ~Ignored(f1) /\ ~Ignored(f2)
             /\ \A d0 \in 0..(d1 - 1) : \A f0 \in FieldsAt(t, d0) :
                   f0.Name # f1.Name) =>
                IsKept(doc, f1)

\* C22: among fields of the same name promoted from embedded types at
\* different embedding depths, the field at the smaller depth is the one the
\* document keeps, whatever the order in which the record declares the
\* embedded fields.
C22_NearerFieldKept ==
    (pc # "init" /\ first.status = "ok"
       /\ TypeOf(Deref(root)).Kind = "struct"
       /\ first.schema[1].Type = typeObject) =>
        NearerKept(Deref(root), first.schema[1])

(***************************************************************************)
(* C23: enum literals of record-typed fields in the $defs revision.        *)
(***************************************************************************)

\* The kind of JSON value that a field of scalar type t holds, "" otherwise.
JsonKindOf(t) ==
    CASE TypeOf(t).Kind = "string" -> "str"
      [] TypeOf(t).Kind = "bool" -> "bool"
      [] TypeOf(t).Kind \in {"int", "int64", "uint", "uint64", "float64"} ->
             "num"
      [] OTHER -> ""

\* The JSON object v has, for every scalar field of the record t that it
\* names, a value of the field's kind.
DeclaredKinds(t, v) ==
    \A f \in FieldsAt(t, 0) :
        \A k \in DOMAIN v.o :
            (Str(k) = TargetName(f) /\ JsonKindOf(f.Type) # "") =>
                v.o[k].k = JsonKindOf(f.Type)

IsObjectText(cs) == Unmarshal(cs).ok /\ Unmarshal(cs).v.k = "obj"

\* The fields of the record t that are records themselves and have an enum
\* tag.
EnumRecords(t) ==
    {f \in FieldsAt(t, 0) :
        /\ TagGet(f.Tag, "enum") # <<>>
        /\ TypeOf(Deref(f.Type)).Kind = "struct"
        /\ Deref(f.Type) \notin DOMAIN LibraryTypes}

\* An enum literal of the field f is no JSON object.
NotAnObject(f) ==
    \E i \in DOMAIN RawPieces(f.Tag["enum"]) :
        ~IsObjectText(RawPieces(f.Tag["enum"])[i])

\* An enum literal of the field f is a JSON object with a value of another
\* kind than declared.
WrongKinds(f) ==
    \E i \in DOMAIN RawPieces(f.Tag["enum"]) :
        /\ IsObjectText(RawPieces(f.Tag["enum"])[i])
        /\ ~DeclaredKinds(Deref(f.Type),
                          Unmarshal(RawPieces(f.Tag["enum"])[i]).v)

EnumRecordChecked(f) ==
    /\ NotAnObject(f) =>
          /\ first.status = "error"
          /\ first.err.msg = "invalid tag value"
          /\ first.err.kind = typeObject
    /\ WrongKinds(f) => first.status = "error"

RecordRoot ==
    rev = "defs" /\ pc # "init" /\ TypeOf(Deref(root)).Kind = "struct"

\* C23: in the $defs-producing revision an enum literal on a field whose type
\* is a record, anonymous or named, must be a JSON object whose values for
\* declared properties have the declared kinds; a literal that is no JSON
\* object makes For fail with an "invalid object tag value" error, also when
\* the field's schema is a $ref.
C23_RecordEnumChecked ==
    RecordRoot =>
        \A f \in EnumRecords(Deref(root)) : EnumRecordChecked(f)

\* The same for the fields whose schema is no $ref: what the code does.
RecordEnumAsFound ==
    RecordRoot =>
        \A f \in EnumRecords(Deref(root)) :
            (\/ TypeOf(Deref(f.Type)).Name = ""
             \/ \A g \in FieldsAt(Deref(root), 0) : g.Type = f.Type) =>
                EnumRecordChecked(f)

(***************************************************************************)
(* C24: one walk for each named record.                                    *)
(***************************************************************************)

\* The named records whose fields the walk of root went through, in order.
WalkedFrom(t) == schemaForD(t, NoDefinitions, 0).defs.walked

\* The fields of type t, or of pointers to it, that the records of the set
\* have.
FieldsOfType(records, t) ==
    {<<r, i>> \in records \X (1..3) :
        /\ i <= Len(TypeOf(r).Fields)
        /\ Deref(TypeOf(r).Fields[i].Type) = t}

\* C24: within one For call of the $defs-producing revision the record branch
\* of schemaFor runs at most once for each named record type; every later
\* visit of the type is answered from the registry without walking its
\* fields again.
C24_WalkedOnce ==
    (rev = "defs" /\ pc # "init") =>
        /\ \A t \in SeqRange(WalkedFrom(root)) :
              /\ IsNamedRecord(t)
              /\ Occurrences(WalkedFrom(root), t) = 1
        /\ first.status = "ok" =>
              DOMAIN first.schema[1].Definitions
                 = SeqRange(WalkedFrom(root)) \ {root}

\* C24's case: a record that is met three times, as the type of two fields
\* of the root and of one of its own, and walked once.
C24_Witness ==
    /\ rev = "defs" /\ pc = "called" /\ first.status = "ok"
    /\ root = "schema_test.Pair"
    /\ Cardinality(FieldsOfType(SeqRange(WalkedFrom(root)),
                                "schema_test.RecursiveChildKey")) = 3
    /\ WalkedFrom(root) = <<"schema_test.Pair", "schema_test.RecursiveChildKey">>

(***************************************************************************)
(* C25: the references of a document and the entries of its $defs.         *)
(***************************************************************************)

\* The $ref values in the schema s and below it.
RECURSIVE RefsIn(_)
RefsIn(s) ==
    (IF s.Ref # "" THEN {s.Ref} ELSE {})
      \cup (IF s.Items # <<>> THEN RefsIn(s.Items[1]) ELSE {})
      \cup UNION {RefsIn(s.Properties[n]) : n \in DOMAIN s.Properties}

\* The $ref values anywhere in the document.
RefsOf(doc) ==
    RefsIn(doc)
      \cup UNION {RefsIn(doc.Definitions[K]) : K \in DOMAIN doc.Definitions}

\* The entry e is the whole schema of the record K: every property of its
\* fields, and all of them required.
CompleteEntry(K, e) ==
    /\ e.Type = typeObject
    /\ DOMAIN e.Properties = KeptNames(Collected(K))
    /\ SeqRange(e.Required) = DOMAIN e.Properties
    /\ Len(e.Required) = Cardinality(DOMAIN e.Properties)

\* C25: in every document that For of the $defs-producing revision returns,
\* each $ref is "#" or "#/$defs/K" with K a key of the document's $defs, and
\* the entry of K is the complete record schema of K, with all its properties
\* and its full required list, not a snapshot taken during the walk of K.
C25_RefsResolve ==
    Derived("defs") =>
        /\ \A r \in RefsOf(first.schema[1]) :
              \/ r = "#"
              \/ \E K \in DOMAIN first.schema[1].Definitions :
                    r = "#/$defs/" \o K
        /\ \A K \in DOMAIN first.schema[1].Definitions :
              CompleteEntry(K, first.schema[1].Definitions[K])

\* The same for the roots that are named records, where the first record
\* walked is the root: what the code does.
RefsResolveAsFound ==
    (Derived("defs") /\ IsNamedRecord(root)) =>
        /\ \A r \in RefsOf(first.schema[1]) :
              \/ r = "#"
              \/ \E K \in DOMAIN first.schema[1].Definitions :
                    r = "#/$defs/" \o K
        /\ \A K \in DOMAIN first.schema[1].Definitions :
              CompleteEntry(K, first.schema[1].Definitions[K])

(***************************************************************************)
(* C26.  In every record schema of a derived document the required list    *)
(* has no name twice and names only keys of properties, whatever the       *)
(* record's declared and embedded fields and their json names are.         *)
(***************************************************************************)
RECURSIVE RecordsIn(_)
RecordsIn(s) ==
    (IF s.Type = typeObject /\ s.Ref = "" THEN {s} ELSE {})
      \cup (IF s.Items # <<>> THEN RecordsIn(s.Items[1]) ELSE {})
      \cup UNION {RecordsIn(s.Properties[n]) : n \in DOMAIN s.Properties}

\* The record schemas anywhere in the document, its $defs entries included.
RecordsOf(doc) ==
    RecordsIn(doc)
      \cup UNION {RecordsIn(doc.Definitions[K]) : K \in DOMAIN doc.Definitions}

RequiredIsSetOfKeys(s) ==
    /\ \A i, j \in 1..Len(s.Required) :
          s.Required[i] = s.Required[j] => i = j
    /\ \A i \in 1..Len(s.Required) : s.Required[i] \in DOMAIN s.Properties

C26_RequiredIsSetOfKeys ==
    (Derived("mb") \/ Derived("defs")) =>
        \A s \in RecordsOf(first.schema[1]) : RequiredIsSetOfKeys(s)

(***************************************************************************)
(* C30.  Deriving the same type twice, where the derivation fails, yields  *)
(* the same error both times: the same literal, kind and field path, also  *)
(* where an object literal has the wrong kind at more than one property.   *)
(***************************************************************************)
FailedTwice == pc = "twice" /\ first.status = "error" /\ second.status = "error"

C30_SameErrorTwice == FailedTwice => first.err = second.err

(***************************************************************************)
(* A program that calls Client.Run once (openai/internal/assistant.go:     *)
(* 113-151; Executor.run, part_009:15-54, is the same).  Each request      *)
(* httpclient.Stream posts gets a reply of the server: a transport error,  *)
(* a status, or a stream of events that ends well or breaks.  A JSON text  *)
(* is held as what json.Unmarshal makes of it: ok tells whether it parses. *)
(***************************************************************************)
MaxStreams == 3

MaxEvents == 2

\* make(chan func() error, 1), assistant.go:137
StreamCap == 1

ThreadID == "thread_1"

RunID == "run_1"

\* An element of required_action.submit_tool_outputs.tool_calls,
\* assistant.go:175-182
ToolCall(id, type, name) == [ID |-> id, Type |-> type, Name |-> name]

\* What Call of each function of the assistant returns, assistant.go:208:
\* the contents of the message and the error ("" for nil).
Functions ==
    "f" :> [Content |-> <<"42">>, err |-> ""]
    @@ "g" :> [Content |-> <<>>, err |-> "boom"]
    @@ "e" :> [Content |-> <<>>, err |-> ""]

ToolCallLists ==
    {<<>>,
     <<ToolCall("call_1", "function", "f")>>,
     <<ToolCall("call_1", "function", "f"), ToolCall("call_2", "function", "g")>>,
     <<ToolCall("call_3", "function", "h"), ToolCall("call_1", "function", "f")>>,
     <<ToolCall("call_4", "code_interpreter", ""), ToolCall("call_2", "function", "g")>>,
     <<ToolCall("call_5", "function", "e")>>}

\* An event of a run's stream with its data decoded.
RunEvent(type, ok, calls, status) ==
    [Type |-> type, ok |-> ok, ToolCalls |-> calls, Status |-> status]

RunEvents ==
    {RunEvent("thread.run.requires_action", TRUE, cs, "") : cs \in ToolCallLists}
      \cup {RunEvent("thread.run.requires_action", FALSE, <<>>, ""),
            RunEvent("thread.message.completed", TRUE, <<>>, "completed"),
            RunEvent("thread.message.completed", FALSE, <<>>, ""),
            RunEvent("thread.message.incomplete", TRUE, <<>>, "incomplete"),
            RunEvent("thread.run.created", TRUE, <<>>, "")}

EventSeqs == UNION {[1..n -> RunEvents] : n \in 0..MaxEvents}

\* The server asks for no action.
Quiet(evs) ==
    \A i \in 1..Len(evs) : evs[i].Type # "thread.run.requires_action"

\* The replies to the n-th stream request: the reply and the events of its
\* body.  The server asks for an action in fewer than MaxStreams streams.
RunReplies(n) ==
    {[reply |-> r, events |-> <<>>] :
        r \in {Reply(TRUE, 0, <<>>, "eof"), Reply(FALSE, 500, <<>>, "eof")}}
      \cup {[reply |-> Reply(FALSE, 200, <<>>, e), events |-> evs] :
               e \in {"eof", "reset"},
               evs \in {s \in EventSeqs : n < MaxStreams \/ Quiet(s)}}

\* The request a queued function posts: its path and body.
Request(path, assistantID, outputs) ==
    [path |-> path, AssistantID |-> assistantID, ToolOutputs |-> outputs,
     Stream |-> TRUE]

\* assistant.go:190-193
output(id, text) == [ToolCallID |-> id, Output |-> text]

\* assistant.go:209-220: result is what the function's Call returned.
textOf(result) ==
    IF result.err # "" THEN "{\"error\": \"" \o result.err \o "\"}"
    ELSE result.Content[1]

\* result.Content[0] of a message without content, assistant.go:213
OutOfRange(result) == result.err = "" /\ result.Content = <<>>

\* append(outputs.ToolOutputs, o), where the calls before came to outs
withOutput(o, outs) ==
    IF outs.panic THEN outs ELSE [outs EXCEPT !.out = <<o>> \o @]

\* The loop of assistant.go:204-227 over calls: the outputs, or the panic
\* of the index expression.
RECURSIVE toolOutputs(_)
toolOutputs(calls) ==
    IF calls = <<>> THEN [panic |-> FALSE, out |-> <<>>]
    ELSE IF Head(calls).Type = "function"
            /\ Head(calls).Name \in DOMAIN Functions
    THEN IF OutOfRange(Functions[Head(calls).Name])
         THEN [panic |-> TRUE, out |-> <<>>]
         ELSE withOutput(output(Head(calls).ID,
                                textOf(Functions[Head(calls).Name])),
                         toolOutputs(Tail(calls)))
    ELSE toolOutputs(Tail(calls))

\* The error of json.Unmarshal and the ones handle makes.
UnmarshalError ==
    [is |-> "json.SyntaxError", Code |-> 0, Message |-> "", wraps |-> <<>>]

IncompleteError ==
    [is |-> "errorString", Code |-> 0, Message |-> "message incomplete: ",
     wraps |-> <<>>]

InitRun ==
    /\ SchemaIdle
    /\ resp = NoReply
    /\ unread = <<>>
    /\ event = NoEvent
    /\ delivered = <<>>
    /\ hpc = "idle"
    /\ herr = NilError
    /\ asstID \in {"asst_1", "asst_2"}
    /\ sent = <<>>
    /\ stream = <<>>
    /\ incoming = <<>>
    /\ answer = ""
    /\ gpc = <<>>
    /\ used = <<>>
    /\ tools = "ok"
    /\ idLen = 0

\* Client.Run, assistant.go:113-151, up to the loop of handler.run()
ClientRun ==
    /\ hpc = "idle"
    /\ hpc' = "select"
    /\ stream' = <<Request("/threads/" \o ThreadID \o "/runs", asstID, <<>>)>>
    /\ UNCHANGED <<resp, unread, event, delivered, herr, asstID, sent,
                   incoming, answer, gpc, used, tools, idLen,
                   schemaVars>>

\* eventHandler.run returns err, assistant.go:291-292
runFails(err) ==
    /\ hpc' = "returned"
    /\ herr' = err

\* case f := <-h.stream, assistant.go:290-291, and f() up to the first
\* event of the reply, stream.go:23-62
runReceives ==
    /\ hpc = "select"
    /\ stream # <<>>
    /\ stream' = Tail(stream)
    /\ sent' = Append(sent, Head(stream))
    /\ \E r \in RunReplies(Len(sent) + 1) :
          /\ resp' = r.reply
          /\ IF roundTrip(r.reply) # NilError
             THEN /\ runFails(roundTrip(r.reply))
                  /\ UNCHANGED incoming
             ELSE /\ hpc' = "streaming"
                  /\ incoming' = r.events
                  /\ UNCHANGED herr
    /\ UNCHANGED <<unread, event, delivered, asstID, answer, gpc, used,
                   tools, idLen, schemaVars>>

\* h.stream <- func() error {...}, assistant.go:229-234: the goroutine
\* that sends is the one that receives, so with the buffer full it parks
\* for good.
sends(request) ==
    IF Len(stream) < StreamCap
    THEN /\ stream' = Append(stream, request)
         /\ UNCHANGED <<hpc, herr, answer>>
    ELSE /\ hpc' = "blocked"
         /\ UNCHANGED <<stream, herr, answer>>

\* assistant.go:194-234: outs is what the loop over the calls came to.
queues(outs) ==
    IF outs.panic
    THEN /\ hpc' = "panicked"
         /\ UNCHANGED <<stream, herr, answer>>
    ELSE sends(Request("/threads/" \o ThreadID \o "/runs/" \o RunID
                          \o "/submit_tool_outputs", "", outs.out))

\* handle returns err, and Stream and f with it, stream.go:72-74
handleFails(err) ==
    /\ runFails(Wrap("handle stream event", err))
    /\ UNCHANGED <<stream, answer>>

\* eventHandler.handle, assistant.go:167-285, called at stream.go:72
handle ==
    /\ hpc = "streaming"
    /\ incoming # <<>>
    /\ incoming' = Tail(incoming)
    /\ event' = Head(incoming)
    /\ delivered' = Append(delivered, Head(incoming))
    /\ CASE Head(incoming).Type = "thread.run.requires_action" ->
              IF ~Head(incoming).ok
              THEN handleFails(Wrap("unmarshal action", UnmarshalError))
              ELSE queues(toolOutputs(Head(incoming).ToolCalls))
         [] Head(incoming).Type \in {"thread.message.completed",
                                     "thread.message.incomplete"} ->
              IF ~Head(incoming).ok
              THEN handleFails(Wrap("unmarshal message", UnmarshalError))
              ELSE IF Head(incoming).Status = "incomplete"
              THEN handleFails(IncompleteError)
              ELSE /\ answer' = IF Head(incoming).Status = "completed"
                                THEN "done" ELSE answer
                   /\ UNCHANGED <<hpc, herr, stream>>
         [] OTHER -> UNCHANGED <<hpc, herr, stream, answer>>
    /\ UNCHANGED <<resp, unread, asstID, sent, gpc, used, tools, idLen,
                   schemaVars>>

\* reader.read() at the end of the body, stream.go:63-70, and the return
\* of f to the loop, assistant.go:291-293
streamEnds ==
    /\ hpc = "streaming"
    /\ incoming = <<>>
    /\ IF resp.ending = "eof"
       THEN /\ hpc' = "select"
            /\ UNCHANGED herr
       ELSE runFails(Wrap("read stream event", Wrap("read line", ResetError)))
    /\ UNCHANGED <<resp, unread, event, delivered, asstID, sent, stream,
                   incoming, answer, gpc, used, tools, idLen,
                   schemaVars>>

\* default: return h.message, nil, assistant.go:294-295
runReturns ==
    /\ hpc = "select"
    /\ stream = <<>>
    /\ hpc' = "returned"
    /\ UNCHANGED <<resp, unread, event, delivered, herr, asstID, sent,
                   stream, incoming, answer, gpc, used, tools, idLen,
                   schemaVars>>

NextRun == ClientRun \/ runReceives \/ handle \/ streamEnds \/ runReturns

SpecRun == InitRun /\ [][NextRun]_vars

(***************************************************************************)
(* C27.  Client.Run returns, whatever events the server sends: handle      *)
(* never parks on the send of a follow-up stream to the one-slot channel,  *)
(* however many thread.run.requires_action events one stream delivers, and *)
(* when Run returns its message no queued follow-up is left unrun.         *)
(***************************************************************************)
C27_RunNeverBlocks ==
    /\ hpc # "blocked"
    /\ (hpc = "returned" /\ herr = NilError) => stream = <<>>

\* What the code does: a stream's first request for action is queued, and
\* Run returning its message leaves nothing queued.
RunAsFound ==
    /\ hpc = "blocked" =>
          /\ Len(stream) = StreamCap
          /\ event.Type = "thread.run.requires_action"
    /\ (hpc = "returned" /\ herr = NilError) => stream = <<>>

(***************************************************************************)
(* C29.  The submit_tool_outputs request that handle queues on a           *)
(* thread.run.requires_action event has one output for every tool call of  *)
(* the event, with that call's id, in the order of the calls; the output   *)
(* of a call whose function failed holds the error's text.                 *)
(***************************************************************************)
\* handle has just queued the follow-up of the event it was called with.
Queued ==
    /\ hpc = "streaming"
    /\ event.Type = "thread.run.requires_action"
    /\ event.ok
    /\ stream # <<>>

\* The function of the call exists and returns an error.
FailingCall(call) ==
    /\ call.Type = "function"
    /\ call.Name \in DOMAIN Functions
    /\ Functions[call.Name].err # ""

OutputsMatch(calls, outs) ==
    /\ Len(outs) = Len(calls)
    /\ \A i \in 1..Len(calls) :
          /\ outs[i].ToolCallID = calls[i].ID
          /\ FailingCall(calls[i]) =>
                outs[i].Output
                   = "{\"error\": \"" \o Functions[calls[i].Name].err \o "\"}"

C29_OneOutputPerCall ==
    Queued => OutputsMatch(event.ToolCalls, stream[1].ToolOutputs)

\* What the code does: the outputs are those of the calls of type function
\* whose name is one of the assistant's functions; the other calls get none.
Answerable(calls) ==
    SelectSeq(calls, LAMBDA c : c.Type = "function" /\ c.Name \in DOMAIN Functions)

ToolOutputsAsFound ==
    Queued => OutputsMatch(Answerable(event.ToolCalls), stream[1].ToolOutputs)

(***************************************************************************)
(* A program whose goroutines each call Executor.Run once                  *)
(* (openai/executor.go:28-57, with createAssistant of part_010:267-316,    *)
(* createThread, createMessage and listMessages of part_008:97-163 and run *)
(* of part_009:15-54), all with one Assistant and each with a Thread of    *)
(* its own.  A step of a goroutine is what it does from one access to the  *)
(* shared Assistant or to the server up to the next; the goroutine is done *)
(* when the request of its run is posted.  Nothing orders the accesses to  *)
(* asst.ID, a string of two words: asstID is the text its data word points *)
(* at ("" for nil) and idLen its length word, and a store writes the two   *)
(* one after the other, in an order the build chooses.                     *)
(***************************************************************************)
NumGoroutines == 2

MaxMessages == 2

Goroutines == 1..NumGoroutines

\* The IDs the server gives to the assistants it creates, in order.
ServerIDs == <<"asst_1", "asst_2", "asst_3">>

ThreadOf(g) == "thread_" \o Itoa(g)

\* A goroutine that enters Run with the thread of the given ID ("" for a
\* new one) and n messages to add to it.
Start(thread, n) == [at |-> "start", ID |-> "", thread |-> thread, todo |-> n]

Starts(g) ==
    {Start("", 0)} \cup {Start(ThreadOf(g), n) : n \in 0..MaxMessages}

\* The create-assistant requests among the requests rs.
Creates(rs) == SelectSeq(rs, LAMBDA r : r = "POST /assistants")

\* A string of a nil data word and a length that is not zero.
TornID == "(nil)"

\* The string that a load of the two words gives.
loaded(data, length) ==
    IF length = 0 THEN "" ELSE IF data = "" THEN TornID ELSE data

InitExec ==
    /\ SchemaIdle
    /\ resp = NoReply
    /\ unread = <<>>
    /\ event = NoEvent
    /\ delivered = <<>>
    /\ hpc = "off"
    /\ herr = NilError
    /\ asstID \in {"", "asst_0"}
    /\ idLen = Len(asstID)
    /\ sent = <<>>
    /\ stream = <<>>
    /\ incoming = <<>>
    /\ answer = ""
    /\ gpc \in {f \in [Goroutines -> UNION {Starts(g) : g \in Goroutines}] :
                   \A g \in Goroutines : f[g] \in Starts(g)}
    /\ used = [g \in Goroutines |-> ""]
    /\ tools \in {"ok", "bad"}

\* Where a goroutine that has its assistant goes on: to the requests for
\* its thread, executor.go:42-54, or, with nothing to send, to the run.
onward(r) == IF r.thread = "" \/ r.todo > 0 THEN "thread" ELSE "run"

\* if assistant.ID == "", executor.go:35, a test of the length word
checksID(g) ==
    /\ gpc[g].at = "start"
    /\ gpc' = [gpc EXCEPT ![g].at = IF idLen = 0 THEN "create"
                                    ELSE onward(gpc[g])]
    /\ UNCHANGED <<asstID, idLen, sent, used>>

\* createAssistant up to the reply of the server, part_010:267-312: the
\* schema of a tool fails and Run returns before any request (:291-294),
\* or the request is posted (:309) and fails, or the server creates an
\* assistant.
createsAssistant(g) ==
    /\ gpc[g].at = "create"
    /\ Len(Creates(sent)) < Len(ServerIDs)
    /\ IF tools = "bad"
       THEN /\ gpc' = [gpc EXCEPT ![g].at = "failed"]
            /\ UNCHANGED sent
       ELSE /\ sent' = Append(sent, "POST /assistants")
            /\ \E failed \in BOOLEAN :
                  gpc' = [gpc EXCEPT
                            ![g].at = IF failed THEN "failed" ELSE "created",
                            ![g].ID = IF failed THEN ""
                                      ELSE ServerIDs[Len(Creates(sent)) + 1]]
    /\ UNCHANGED <<asstID, idLen, used>>

\* asst.ID = resp.ID, part_010:313: the store of the first of the two words
storesWord(g) ==
    /\ gpc[g].at = "created"
    /\ \/ /\ asstID' = gpc[g].ID
          /\ gpc' = [gpc EXCEPT ![g].at = "data stored"]
          /\ UNCHANGED idLen
       \/ /\ idLen' = Len(gpc[g].ID)
          /\ gpc' = [gpc EXCEPT ![g].at = "length stored"]
          /\ UNCHANGED asstID
    /\ UNCHANGED <<sent, used>>

\* asst.ID = resp.ID, part_010:313: the store of the other word
assignsID(g) ==
    /\ gpc[g].at \in {"data stored", "length stored"}
    /\ asstID' = IF gpc[g].at = "length stored" THEN gpc[g].ID ELSE asstID
    /\ idLen' = IF gpc[g].at = "data stored" THEN Len(gpc[g].ID) ELSE idLen
    /\ gpc' = [gpc EXCEPT ![g].at = onward(gpc[g]), ![g].ID = ""]
    /\ UNCHANGED <<sent, used>>

\* createThread up to the reply to its first request, part_008:97-118
postsThread(g) ==
    /\ gpc[g].at = "thread"
    /\ gpc[g].thread = ""
    /\ sent' = Append(sent, "POST /threads")
    /\ \E failed \in BOOLEAN :
          gpc' = [gpc EXCEPT
                    ![g].at = IF failed THEN "failed" ELSE "list",
                    ![g].thread = IF failed THEN "" ELSE ThreadOf(g)]
    /\ UNCHANGED <<asstID, idLen, used>>

\* listMessages, part_008:146-163, called at part_008:120
listsMessages(g) ==
    /\ gpc[g].at = "list"
    /\ sent' = Append(sent, "GET /threads/" \o gpc[g].thread \o "/messages")
    /\ \E failed \in BOOLEAN :
          gpc' = [gpc EXCEPT ![g].at = IF failed THEN "failed" ELSE "run"]
    /\ UNCHANGED <<asstID, idLen, used>>

\* createMessage, part_008:131-144, in the loop of executor.go:49-53
postsMessage(g) ==
    /\ gpc[g].at = "thread"
    /\ gpc[g].thread # ""
    /\ sent' = Append(sent, "POST /threads/" \o gpc[g].thread \o "/messages")
    /\ \E failed \in BOOLEAN :
          gpc' = [gpc EXCEPT
                    ![g].at = IF failed THEN "failed"
                              ELSE IF gpc[g].todo > 1 THEN "thread" ELSE "run",
                    ![g].todo = IF failed THEN @ ELSE @ - 1]
    /\ UNCHANGED <<asstID, idLen, used>>

\* run := &run{AssistantID: asst.ID, ...}, part_009:21-24
readsID(g) ==
    /\ gpc[g].at = "run"
    /\ used' = [used EXCEPT ![g] = loaded(asstID, idLen)]
    /\ gpc' = [gpc EXCEPT ![g].at = "post"]
    /\ UNCHANGED <<asstID, idLen, sent>>

\* The request of the run, made by httpclient.Stream (stream.go:23-50) in
\* the function that handler.run() takes from the channel, part_009:49-53.
\* Encoding the body reads the text of AssistantID: through a nil data word
\* that is a nil dereference, and no request is sent.
postsRun(g) ==
    /\ gpc[g].at = "post"
    /\ IF used[g] = TornID
       THEN /\ gpc' = [gpc EXCEPT ![g].at = "panicked"]
            /\ UNCHANGED sent
       ELSE /\ sent' = Append(sent,
                              "POST /threads/" \o gpc[g].thread \o "/runs")
            /\ gpc' = [gpc EXCEPT ![g].at = "done"]
    /\ UNCHANGED <<asstID, idLen, used>>

\* Executor.Run, executor.go:28-57, in the goroutine g; a panic that no
\* goroutine recovers ends the program.
ExecutorRun(g) ==
    /\ \A h \in Goroutines : gpc[h].at # "panicked"
    /\ \/ checksID(g)
       \/ createsAssistant(g)
       \/ storesWord(g)
       \/ assignsID(g)
       \/ postsThread(g)
       \/ listsMessages(g)
       \/ postsMessage(g)
       \/ readsID(g)
       \/ postsRun(g)
    /\ UNCHANGED <<resp, unread, event, delivered, hpc, herr, stream,
                   incoming, answer, tools, schemaVars>>

NextExec == \E g \in Goroutines : ExecutorRun(g)

SpecExec == InitExec /\ [][NextExec]_vars

(***************************************************************************)
(* C28.  When several goroutines call Executor.Run with one Assistant      *)
(* whose ID is empty, each with its own Thread, the server gets at most    *)
(* one create-assistant request and all the runs have the same assistant   *)
(* ID.                                                                     *)
(***************************************************************************)
\* The goroutine g has made its run.
HasRun(g) == gpc[g].at \in {"post", "done", "panicked"}

C28_OneAssistant ==
    /\ Len(Creates(sent)) <= 1
    /\ \A g, h \in Goroutines : (HasRun(g) /\ HasRun(h)) => used[g] = used[h]

\* What the code does: every run has the ID of an assistant the server
\* made for one of the goroutines, or the ID the Assistant came with, or a
\* string torn between two stores.
ExecAsFound ==
    \A g \in Goroutines :
       HasRun(g) =>
          \/ used[g] \in {"asst_0", TornID}
          \/ \E i \in 1..Len(Creates(sent)) : used[g] = ServerIDs[i]
=============================================================================
